---- MODULE Spec2Model ----
(***************************************************************************)
(* Model of the extraction request handler (POST) of the auth extractor:   *)
(* acquisition of a repository into a temporary working tree (uploaded     *)
(* archive, shallow clone, or archive download over candidate branches and *)
(* URL formats), extraction, rendering, cleanup and the response.          *)
(*                                                                         *)
(* One request is followed from its arrival to its response.  Each action  *)
(* is one stretch of the handler between two suspension points or one      *)
(* operation on the file system; the environment (remote hosts, the file   *)
(* system, the uploaded bytes) chooses every outcome the code can observe. *)
(* The UI-only processSteps log is not part of the state.                  *)
(*                                                                         *)
(* Two further specifications share the module.  ExtractSpec draws a       *)
(* working tree (source files as token sequences, a manifest) and applies  *)
(* extractAuthSystem and the generator to it; the pattern extractors are   *)
(* operators computed on the tokens.  ServerSpec follows two requests of   *)
(* one server process that share the temporary directory of the host.      *)
(***************************************************************************)
EXTENDS Integers, Sequences, FiniteSets, TLC

VARIABLES
    pc,             \* position of the handler
    request,        \* the incoming request (content type and payload)
    repoUrl,        \* body.repoUrl, a string as a sequence of tokens; <<>> = null
    uploadedFile,   \* the uploaded File, or NoFile
    tempDir,        \* path of the temporary directory, <<>> = null
    dirExists,      \* whether the temporary directory exists on disk
    tree,           \* top-level entries of the temporary directory
    owner,          \* regex capture 1
    repo,           \* regex capture 2
    defaultBranch,
    branchesToTry,
    bi,             \* index of `branch` in the outer for-of loop
    fi,             \* index of `zipUrl` in the inner for-of loop
    downloaded,
    errors,
    response,       \* the last download response (status ok, first bytes of the body)
    authMemory,     \* result of extractAuthSystem, or NoMemory
    fileContent,    \* rendered artifact, or NoContent
    err,            \* the error object travelling through the catch blocks
    resp,           \* the response returned by the handler, or NoResp
    net,            \* history: the clone (with its exit), the branch-info request
                    \* (with its result) and the archive requests, in order
    created,        \* history: mkdirSync has created the temporary directory
    origErr,        \* history: the first error thrown in the request
    files,          \* ExtractSpec: the source files of the working tree, in the
                    \* order glob enumerates them
    manifest,       \* ExtractSpec: state of package.json in the working tree
    now,            \* ExtractSpec, ServerSpec: the wall clock (Date.now())
    records,        \* ExtractSpec: outcome of each extractAuthSystem call, in order
    artifacts,      \* ExtractSpec: output of the generator for each record, in order
    reqs,           \* ServerSpec: the requests in flight
    disk            \* ServerSpec: directories under os.tmpdir() and their files

handlerVars == <<pc, request, repoUrl, uploadedFile, tempDir, dirExists, tree, owner,
          repo, defaultBranch, branchesToTry, bi, fi, downloaded, errors, response,
          authMemory, fileContent, err, resp, net, created, origErr>>

extractVars == <<files, manifest, records, artifacts>>

serverVars == <<reqs, disk>>

vars == <<handlerVars, extractVars, now, serverVars>>

----------------------------------------------------------------------------
(* Strings are sequences of tokens, so that the regular expression, the    *)
(* substring test and path splitting are computed rather than assumed.     *)

GithubPrefix == "https://github.com/"

\* the character class [\w\-\.] over the tokens used in the model
WordTokens == {"o", "r", "x", "f", "-", ".", "git", "main"}

RECURSIVE IndexOfFrom(_, _, _)
\* index of the first occurrence of token t in s at or after i, 0 if none
IndexOfFrom(s, t, i) ==
    IF i > Len(s) THEN 0
    ELSE IF s[i] = t THEN i
    ELSE IndexOfFrom(s, t, i + 1)

\* String.prototype.includes on token sequences
Includes(s, t) ==
    \E i \in 0..(Len(s) - Len(t)) :
        \A j \in 1..Len(t) : s[i + j] = t[j]

\* last element of path.split('/')
LastSegment(p) == IF Len(p) = 0 THEN <<>> ELSE p[Len(p)]

\* /^https:\/\/github\.com\/([\w\-\.]+)\/([\w\-\.]+)(?:\.git)?$/ : the literal
\* prefix, one or more class tokens, a slash, one or more class tokens, end.
\* Both groups are greedy and "." is in the class, so group 2 takes the whole
\* remainder and the optional (?:\.git) matches the empty string.
GithubRegexMatches(u) ==
    /\ Len(u) >= 4
    /\ u[1] = GithubPrefix
    /\ LET rest == Tail(u)
           k == IndexOfFrom(rest, "/", 1)
       IN  /\ k > 1
           /\ k < Len(rest)
           /\ \A i \in 1..Len(rest) : i # k => rest[i] \in WordTokens

\* const [, owner, repo] = match
MatchOwner(u) ==
    LET rest == Tail(u) IN SubSeq(rest, 1, IndexOfFrom(rest, "/", 1) - 1)

MatchRepo(u) ==
    LET rest == Tail(u) IN SubSeq(rest, IndexOfFrom(rest, "/", 1) + 1, Len(rest))

----------------------------------------------------------------------------
(* The file system.  A directory is a function from entry names to nodes;  *)
(* a node is a file (with the identity of its content) or a directory.     *)
(* Names are typed: a name denotes a directory or a file wherever it       *)
(* occurs.                                                                 *)

WR == <<"r", "-", "main">>      \* a directory name that contains "r"
X == <<"x">>                    \* a directory name
F == <<"f">>                    \* a file name
ZipName == <<"uploaded.zip">>

TopDirNames == {WR, X}
TopFileNames == {F}
KidDirNames == {X}
KidFileNames == {F}

EmptyTree == [n \in {} |-> [kind |-> "file", id |-> <<>>]]

FileNode(src, path) == [kind |-> "file", id |-> <<src>> \o path]

DirNode(kids) == [kind |-> "dir", kids |-> kids]

IsDirectory(t, n) == t[n].kind = "dir"

\* a nested directory holds one file
KidNode(src, top, k) ==
    IF k \in KidFileNames
    THEN FileNode(src, <<top, k>>)
    ELSE DirNode([n \in {F} |-> FileNode(src, <<top, k, n>>)])

\* the entries of an archive whose top-level names are `tops` and whose
\* top-level directory d holds the names kidsOf[d]
Entries(src, tops, kidsOf) ==
    [n \in tops |->
        IF n \in TopFileNames
        THEN FileNode(src, <<n>>)
        ELSE DirNode([k \in kidsOf[n] |-> KidNode(src, n, k)])]

Archives(src) ==
    { Entries(src, tops, kidsOf) :
        tops \in SUBSET (TopDirNames \cup TopFileNames),
        kidsOf \in [TopDirNames -> SUBSET (KidDirNames \cup KidFileNames)] }

\* entries written by an extraction that failed part-way
PartialArchives == { Entries("partial", {WR}, [d \in TopDirNames |-> {F}]) }

\* AdmZip.extractAllTo(dir, true): entries are written over what is there
ExtractAllTo(t, a) ==
    [n \in DOMAIN t \cup DOMAIN a |->
        IF n \notin DOMAIN a THEN t[n]
        ELSE IF n \notin DOMAIN t \/ a[n].kind = "file" THEN a[n]
        ELSE DirNode([k \in DOMAIN t[n].kids \cup DOMAIN a[n].kids |->
                        IF k \in DOMAIN a[n].kids THEN a[n].kids[k]
                        ELSE t[n].kids[k]])]

\* fs.renameSync(dir/k, k) fails when the target is a non-empty directory
\* (ENOTEMPTY); the wrapper itself is non-empty while it still holds k
RenameFails(t, d, k) ==
    /\ k \in DOMAIN t
    /\ t[k].kind = "dir"
    /\ t[d].kids[k].kind = "dir"
    /\ (k = d \/ DOMAIN t[k].kids # {})

\* the tree after the children `moved` of directory d were renamed to the root
Renamed(t, d, moved) ==
    [n \in DOMAIN t \cup moved |->
        IF n \in moved THEN t[d].kids[n]
        ELSE IF n = d
        THEN DirNode([k \in DOMAIN t[d].kids \ moved |-> t[d].kids[k]])
        ELSE t[n]]

\* files.forEach(rename) completed, then fs.rmSync(extractedPath)
Hoisted(t, d) ==
    LET r == Renamed(t, d, DOMAIN t[d].kids)
    IN  [n \in DOMAIN r \ {d} |-> r[n]]

\* every file of a tree, by content identity
RECURSIVE FilesOf(_)
FilesOf(t) ==
    UNION { IF t[n].kind = "file" THEN {t[n].id} ELSE FilesOf(t[n].kids)
            : n \in DOMAIN t }

----------------------------------------------------------------------------
(* Values of the handler.                                                  *)

Error(msg) == [message |-> msg, branches |-> <<>>, details |-> <<>>]

NoErr == Error("")

NoFile == [present |-> FALSE, valid |-> FALSE, entries |-> EmptyTree]

\* uploaded bytes: a ZIP archive with its entries, or bytes AdmZip rejects
UploadFiles ==
    {[present |-> TRUE, valid |-> FALSE, entries |-> EmptyTree]}
    \cup {[present |-> TRUE, valid |-> TRUE, entries |-> a] : a \in Archives("upload")}

\* body.repoUrl values: accepted by the regular expression, or not
Urls ==
    { <<GithubPrefix, "o", "/", "r">>,
      <<GithubPrefix, "o", "/", "r", ".", "git">>,
      <<"http://github.com/", "o", "/", "r">>,
      <<GithubPrefix, "o", "/", "r", "/">>,
      <<GithubPrefix, "o">> }

Requests ==
    {[contentType |-> "multipart/form-data", wellFormed |-> TRUE, file |-> f,
      repoUrl |-> <<>>] : f \in UploadFiles \cup {NoFile}}
    \cup {[contentType |-> "application/json", wellFormed |-> TRUE, file |-> NoFile,
           repoUrl |-> u] : u \in Urls \cup {<<>>}}
    \cup {[contentType |-> "application/json", wellFormed |-> FALSE, file |-> NoFile,
           repoUrl |-> <<>>]}

\* path.join(os.tmpdir(), `auth-extract-${Date.now()}-${random}`)
TempDirPath == <<"tmp", "auth-extract-1-a">>

NoMemory == [absent |-> TRUE]

NoContent == [absent |-> TRUE]

NoResp == [status |-> 0]

Categories ==
    {"authProvider", "sessionStorage", "tokenStrategy", "roleModel", "permissionChecks"}

\* The record assembled by extractAuthSystem.  Each category is computed from
\* the files under repoPath; it is represented by the corpus it was computed from.
ExtractAuthSystem(repoPath, t) ==
    [metadata |-> [projectName |-> LastSegment(repoPath), sourcePath |-> repoPath],
     authProvider |-> FilesOf(t),
     sessionStorage |-> FilesOf(t),
     tokenStrategy |-> FilesOf(t),
     roleModel |-> FilesOf(t),
     permissionChecks |-> FilesOf(t)]

\* generateAuthMemoryFile, then readFileSync of the file it wrote
GenerateAuthMemoryFile(m) == [rendered |-> m]

\* NextResponse.json({ success: true, authMemory, authMemoryData, ... })
SuccessResponse(content, memory) ==
    [status |-> 200, success |-> TRUE, authMemory |-> content,
     authMemoryData |-> memory]

\* variant: the error response also carries whatever record was assembled
ErrorResponseWithPartial(e, status) ==
    [status |-> status, error |-> e, authMemoryData |-> authMemory]

\* NextResponse.json({ error: ... }, { status })
ErrorResponse(e, status) ==
    [status |-> status,
     error |-> IF e.message = "" THEN Error("Failed to extract auth patterns") ELSE e]

\* outcomes of the branch-info request; default_branch "" stands for a
\* missing or empty field
BranchInfoResults ==
    {[outcome |-> o, default_branch |-> ""] : o \in {"throw", "not_ok", "bad_json"}}
    \cup {[outcome |-> "ok", default_branch |-> b] : b \in {"", "main", "master", "dev"}}

\* variant: an OK answer is trusted to carry a default branch
DefaultBranchUnchecked(r) ==
    IF r.outcome = "ok" THEN r.default_branch ELSE "main"

\* defaultBranch after lines 138-157
DefaultBranchOf(r) ==
    IF r.outcome = "ok" /\ r.default_branch # "" THEN r.default_branch ELSE "main"

RECURSIVE Dedupe(_)
\* Array.from(new Set(s)): first occurrences, in order
Dedupe(s) ==
    IF s = <<>> THEN <<>>
    ELSE LET init == Dedupe(SubSeq(s, 1, Len(s) - 1))
             last == s[Len(s)]
         IN  IF \E i \in 1..Len(init) : init[i] = last THEN init
             ELSE Append(init, last)

\* the three archive URLs of a branch, in the order they are tried
UrlFormats(o, r, branch) ==
    << [format |-> "archive", owner |-> o, repo |-> r, branch |-> branch],
       [format |-> "zipball", owner |-> o, repo |-> r, branch |-> branch],
       [format |-> "refs_heads", owner |-> o, repo |-> r, branch |-> branch] >>

NumUrlFormats == 3

\* download responses: status ok or not, and the first bytes of the body
Bodies == { <<>>, <<80, 75, 3, 4>>, <<60, 104>>, <<80, 33>> }

Responses ==
    {[ok |-> FALSE, body |-> <<>>]} \cup {[ok |-> TRUE, body |-> b] : b \in Bodies}

NoResponse == [ok |-> FALSE, body |-> <<>>]

\* firstBytes[0] === 0x50 && firstBytes[1] === 0x4B
IsZipFile(body) ==
    /\ Len(body) >= 2
    /\ body[1] = 80
    /\ body[2] = 75

\* `Branch ${branch} (${zipUrl}): ...`; the text after the colon (status line,
\* fixed text or exception message) steers nothing and is left out
DownloadError(branch, zipUrl) == [branch |-> branch, url |-> zipUrl]

\* Error(`Failed to download repository. Tried branches: ... Details: ...`)
DownloadFailure(branches, errs) ==
    [message |-> "Failed to download repository", branches |-> branches,
     details |-> errs]

----------------------------------------------------------------------------
(* The handler.                                                            *)

\* the variables of the extraction specification while it is not running
IdleExtract ==
    /\ files = <<>>
    /\ manifest = [state |-> "absent", dependencies |-> {}]
    /\ records = <<>>
    /\ artifacts = <<>>

\* the variables of the server specification while it is not running
IdleServer ==
    /\ reqs = <<>>
    /\ disk = {}

Init ==
    /\ pc = "start"
    /\ request \in Requests
    /\ repoUrl = <<>>
    /\ uploadedFile = NoFile
    /\ tempDir = <<>>
    /\ dirExists = FALSE
    /\ tree = EmptyTree
    /\ owner = <<>>
    /\ repo = <<>>
    /\ defaultBranch = "main"
    /\ branchesToTry = <<>>
    /\ bi = 1
    /\ fi = 1
    /\ downloaded = FALSE
    /\ errors = <<>>
    /\ response = NoResponse
    /\ authMemory = NoMemory
    /\ fileContent = NoContent
    /\ err = NoErr
    /\ resp = NoResp
    /\ net = <<>>
    /\ created = FALSE
    /\ origErr = NoErr
    /\ IdleExtract
    /\ IdleServer
    /\ now = 0

\* an error thrown inside the inner try block
Throw(e) ==
    /\ pc' = "inner_catch"
    /\ err' = e
    /\ origErr' = IF origErr = NoErr THEN e ELSE origErr

\* an error thrown in the outer try block, outside the inner one
ThrowOuter(e) ==
    /\ pc' = "outer_catch"
    /\ err' = e
    /\ origErr' = IF origErr = NoErr THEN e ELSE origErr

\* a response returned by the handler
Return(r) ==
    /\ pc' = "done"
    /\ resp' = r

\* lines 34-65: read the upload or the JSON body
ParseRequest ==
    /\ pc = "start"
    /\ IF ~request.wellFormed
       THEN /\ ThrowOuter(Error("request body could not be read"))
            /\ UNCHANGED <<repoUrl, uploadedFile, resp>>
       ELSE IF request.contentType = "multipart/form-data"
       THEN /\ uploadedFile' = request.file
            /\ IF ~request.file.present
               THEN Return(ErrorResponse(Error("No file uploaded"), 400))
               ELSE pc' = "mkdir" /\ resp' = resp
            /\ UNCHANGED <<repoUrl, err, origErr>>
       ELSE /\ repoUrl' = request.repoUrl
            /\ IF request.repoUrl = <<>>
               THEN Return(ErrorResponse(Error("Repository URL is required"), 400))
               ELSE pc' = "mkdir" /\ resp' = resp
            /\ UNCHANGED <<uploadedFile, err, origErr>>
    /\ UNCHANGED <<request, tempDir, dirExists, tree, owner, repo, defaultBranch,
                   branchesToTry, bi, fi, downloaded, errors, authMemory,
                   fileContent, net, created, response>>

\* lines 67-78: tempDir is assigned, then fs.mkdirSync creates it or throws
CreateTempDir ==
    /\ pc = "mkdir"
    /\ tempDir' = TempDirPath
    /\ \/ /\ dirExists' = TRUE
          /\ created' = TRUE
          /\ pc' = IF uploadedFile.present THEN "extract_upload" ELSE "validate_url"
          /\ UNCHANGED <<err, origErr>>
       \/ /\ ThrowOuter(Error("mkdir failed"))
          /\ UNCHANGED <<dirExists, created>>
    /\ UNCHANGED <<request, repoUrl, uploadedFile, tree, owner, repo, defaultBranch,
                   branchesToTry, bi, fi, downloaded, errors, authMemory,
                   fileContent, resp, net, response>>

\* lines 82-92: write uploaded.zip, extract it, unlink it
ExtractUpload ==
    /\ pc = "extract_upload"
    /\ IF uploadedFile.valid
       THEN /\ tree' = ExtractAllTo(tree, uploadedFile.entries)
            /\ pc' = "hoist_upload"
            /\ UNCHANGED <<err, origErr>>
       ELSE /\ tree' = [n \in {ZipName} |-> FileNode("upload", <<ZipName>>)]
            /\ Throw(Error("Invalid or unsupported zip format"))
    /\ UNCHANGED <<request, repoUrl, uploadedFile, tempDir, dirExists, owner, repo,
                   defaultBranch, branchesToTry, bi, fi, downloaded, errors,
                   authMemory, fileContent, resp, net, created, response>>

\* files.forEach(renameSync) then rmSync of the emptied directory d; a failing
\* rename throws after the children readdirSync listed before it were moved
HoistDir(d) ==
    LET failing == {k \in DOMAIN tree[d].kids : RenameFails(tree, d, k)}
    IN  IF failing = {}
        THEN /\ tree' = Hoisted(tree, d)
             /\ pc' = "extract_auth"
             /\ UNCHANGED <<err, origErr>>
        ELSE /\ \E moved \in SUBSET (DOMAIN tree[d].kids \ failing) :
                    tree' = Renamed(tree, d, moved)
             /\ Throw(Error("ENOTEMPTY: rename"))

\* lines 94-110: hoist when the working directory holds exactly one directory
HoistUpload ==
    /\ pc = "hoist_upload"
    /\ LET extractedDirs == {n \in DOMAIN tree : IsDirectory(tree, n)}
       IN  IF Cardinality(extractedDirs) = 1
           THEN HoistDir(CHOOSE d \in extractedDirs : TRUE)
           ELSE /\ pc' = "extract_auth"
                /\ UNCHANGED <<tree, err, origErr>>
    /\ UNCHANGED <<request, repoUrl, uploadedFile, tempDir, dirExists, owner, repo,
                   defaultBranch, branchesToTry, bi, fi, downloaded, errors,
                   authMemory, fileContent, resp, net, created, response>>

\* variant: a mismatch does not return
ValidateUrlFallsThrough ==
    /\ pc = "validate_url"
    /\ pc' = "git_clone"
    /\ UNCHANGED <<request, repoUrl, uploadedFile, tempDir, dirExists, tree, owner,
                   repo, defaultBranch, branchesToTry, bi, fi, downloaded, errors,
                   response, authMemory, fileContent, err, resp, net, created,
                   origErr>>

\* lines 112-123: the URL is matched; a mismatch returns 400 from inside the
\* inner try block
ValidateUrl ==
    /\ pc = "validate_url"
    /\ IF GithubRegexMatches(repoUrl)
       THEN /\ owner' = MatchOwner(repoUrl)
            /\ repo' = MatchRepo(repoUrl)
            /\ pc' = "git_clone"
            /\ resp' = resp
       ELSE /\ Return(ErrorResponse(Error("Invalid GitHub repository URL"), 400))
            /\ UNCHANGED <<owner, repo>>
    /\ UNCHANGED <<request, repoUrl, uploadedFile, tempDir, dirExists, tree,
                   defaultBranch, branchesToTry, bi, fi, downloaded, errors,
                   authMemory, fileContent, err, net, created, origErr, response>>

\* variant: the fallback runs whether or not the clone succeeded
GitCloneThenFallback ==
    /\ pc = "git_clone"
    /\ \E a \in Archives("clone") : tree' = a
    /\ net' = Append(net, [call |-> "clone", repoUrl |-> repoUrl, ok |-> TRUE])
    /\ pc' = "fetch_branch"
    /\ UNCHANGED <<request, repoUrl, uploadedFile, tempDir, dirExists, owner, repo,
                   defaultBranch, branchesToTry, bi, fi, downloaded, errors,
                   response, authMemory, fileContent, err, resp, created, origErr>>

\* lines 125-134: git clone --depth 1 into the working directory; a failed
\* clone leaves the directory as it was
GitClone ==
    /\ pc = "git_clone"
    /\ \/ /\ \E a \in Archives("clone") : tree' = a
          /\ net' = Append(net, [call |-> "clone", repoUrl |-> repoUrl, ok |-> TRUE])
          /\ pc' = "extract_auth"
       \/ /\ net' = Append(net, [call |-> "clone", repoUrl |-> repoUrl, ok |-> FALSE])
          /\ pc' = "fetch_branch"
          /\ tree' = tree
    /\ UNCHANGED <<request, repoUrl, uploadedFile, tempDir, dirExists, owner, repo,
                   defaultBranch, branchesToTry, bi, fi, downloaded, errors,
                   authMemory, fileContent, err, resp, created, origErr, response>>

\* lines 136-163: the branch-info request, then the candidate branch list
FetchBranch ==
    /\ pc = "fetch_branch"
    /\ \E r \in BranchInfoResults :
          /\ net' = Append(net, [call |-> "branch_info", owner |-> owner,
                                 repo |-> repo, result |-> r])
          /\ defaultBranch' = DefaultBranchOf(r)
          /\ branchesToTry' = Dedupe(<<DefaultBranchOf(r), "main", "master">>)
    /\ downloaded' = FALSE
    /\ errors' = <<>>
    /\ response' = NoResponse
    /\ bi' = 1
    /\ fi' = 1
    /\ pc' = "download"
    /\ UNCHANGED <<request, repoUrl, uploadedFile, tempDir, dirExists, tree, owner,
                   repo, authMemory, fileContent, err, resp, created, origErr, response>>

\* variant: the last URL format of each branch is never tried
NextAttemptSkipsLast ==
    IF fi < NumUrlFormats - 1
    THEN fi' = fi + 1 /\ bi' = bi /\ pc' = "download"
    ELSE /\ fi' = 1
         /\ bi' = bi + 1
         /\ pc' = IF bi < Len(branchesToTry) THEN "download" ELSE "after_loop"

\* `continue` of the inner loop, and the end of the outer loop
NextAttempt ==
    IF fi < NumUrlFormats
    THEN fi' = fi + 1 /\ bi' = bi /\ pc' = "download"
    ELSE /\ fi' = 1
         /\ bi' = bi + 1
         /\ pc' = IF bi < Len(branchesToTry) THEN "download" ELSE "after_loop"

\* errors.push(...); continue
AttemptFailed ==
    /\ errors' = Append(errors,
                    DownloadError(branchesToTry[bi],
                                  UrlFormats(owner, repo, branchesToTry[bi])[fi]))
    /\ NextAttempt
    /\ downloaded' = downloaded

\* variant: a successful attempt does not leave the loops
AttemptSucceededNoBreak ==
    /\ downloaded' = TRUE
    /\ NextAttempt
    /\ errors' = errors

\* lines 212-216 and 224-226: downloaded, branchDownloaded, break, break
AttemptSucceeded ==
    /\ downloaded' = TRUE
    /\ pc' = "after_loop"
    /\ UNCHANGED <<errors, bi, fi>>

\* lines 175-221: one iteration of the inner loop
TryDownload ==
    /\ pc = "download"
    /\ net' = Append(net, [call |-> "fetch",
                           url |-> UrlFormats(owner, repo, branchesToTry[bi])[fi]])
    /\ \/ /\ AttemptFailed                     \* fetch rejects (line 217)
          /\ response' = NoResponse
          /\ tree' = tree
       \/ \E r \in Responses :
            /\ response' = r
            /\ IF ~r.ok THEN AttemptFailed /\ tree' = tree               \* line 186
               ELSE IF Len(r.body) = 0 THEN AttemptFailed /\ tree' = tree   \* line 194
               ELSE IF ~IsZipFile(r.body) THEN AttemptFailed /\ tree' = tree \* line 203
               ELSE \/ /\ AttemptFailed         \* AdmZip throws (line 217)
                       /\ \/ tree' = tree
                          \/ \E p \in PartialArchives : tree' = ExtractAllTo(tree, p)
                    \/ /\ \E a \in Archives("zip") : tree' = ExtractAllTo(tree, a)
                       /\ AttemptSucceeded
    /\ UNCHANGED <<request, repoUrl, uploadedFile, tempDir, dirExists, owner, repo,
                   defaultBranch, branchesToTry, authMemory, fileContent, err, resp,
                   created, origErr>>

\* lines 229-232: nothing was downloaded
DownloadExhausted ==
    /\ pc = "after_loop"
    /\ ~downloaded
    /\ Throw(DownloadFailure(branchesToTry, errors))
    /\ UNCHANGED <<request, repoUrl, uploadedFile, tempDir, dirExists, tree, owner,
                   repo, defaultBranch, branchesToTry, bi, fi, downloaded, errors,
                   authMemory, fileContent, resp, net, created, response>>

\* lines 234-250: hoist the first directory whose name includes repo
HoistDownload ==
    /\ pc = "after_loop"
    /\ downloaded
    /\ LET found == {n \in DOMAIN tree : IsDirectory(tree, n) /\ Includes(n, repo)}
       IN  IF found # {}
           THEN \E extractedDir \in found : HoistDir(extractedDir)
           ELSE /\ pc' = "extract_auth"
                /\ UNCHANGED <<tree, err, origErr>>
    /\ UNCHANGED <<request, repoUrl, uploadedFile, tempDir, dirExists, owner, repo,
                   defaultBranch, branchesToTry, bi, fi, downloaded, errors,
                   authMemory, fileContent, resp, net, created, response>>

\* lines 254-257: extractAuthSystem returns the record or throws
ExtractAuth ==
    /\ pc = "extract_auth"
    /\ \/ /\ dirExists
          /\ authMemory' = ExtractAuthSystem(tempDir, tree)
          /\ pc' = "generate"
          /\ UNCHANGED <<err, origErr>>
       \/ /\ Throw(Error("extraction failed"))
          /\ authMemory' = authMemory
    /\ UNCHANGED <<request, repoUrl, uploadedFile, tempDir, dirExists, tree, owner,
                   repo, defaultBranch, branchesToTry, bi, fi, downloaded, errors,
                   fileContent, resp, net, created, response>>

\* lines 259-266: render to a temporary file, read it back, unlink it
GenerateFile ==
    /\ pc = "generate"
    /\ \/ /\ fileContent' = GenerateAuthMemoryFile(authMemory)
          /\ pc' = "cleanup"
          /\ UNCHANGED <<err, origErr>>
       \/ /\ Throw(Error("temporary output file failed"))
          /\ fileContent' = fileContent
    /\ UNCHANGED <<request, repoUrl, uploadedFile, tempDir, dirExists, tree, owner,
                   repo, defaultBranch, branchesToTry, bi, fi, downloaded, errors,
                   authMemory, resp, net, created, response>>

\* lines 268-289: remove the working directory and return the result
CleanupAndRespond ==
    /\ pc = "cleanup"
    /\ \/ /\ dirExists' = FALSE
          /\ tree' = EmptyTree
          /\ Return(SuccessResponse(fileContent, authMemory))
          /\ UNCHANGED <<err, origErr>>
       \/ /\ dirExists
          /\ Throw(Error("rm failed"))
          /\ UNCHANGED <<dirExists, tree, resp>>
    /\ UNCHANGED <<request, repoUrl, uploadedFile, tempDir, owner, repo,
                   defaultBranch, branchesToTry, bi, fi, downloaded, errors,
                   authMemory, fileContent, net, created, response>>

\* lines 290-295: remove the directory, rethrow; rmSync itself may throw
InnerCatch ==
    /\ pc = "inner_catch"
    /\ pc' = "outer_catch"
    /\ IF tempDir # <<>> /\ dirExists
       THEN \/ /\ dirExists' = FALSE
               /\ tree' = EmptyTree
               /\ err' = err
            \/ /\ err' = Error("rm failed")
               /\ UNCHANGED <<dirExists, tree>>
       ELSE UNCHANGED <<dirExists, tree, err>>
    /\ UNCHANGED <<request, repoUrl, uploadedFile, tempDir, owner, repo,
                   defaultBranch, branchesToTry, bi, fi, downloaded, errors,
                   authMemory, fileContent, resp, net, created, origErr, response>>

\* lines 296-303: the error becomes a 500 response
OuterCatch ==
    /\ pc = "outer_catch"
    /\ Return(ErrorResponse(err, 500))
    /\ UNCHANGED <<request, repoUrl, uploadedFile, tempDir, dirExists, tree, owner,
                   repo, defaultBranch, branchesToTry, bi, fi, downloaded, errors,
                   authMemory, fileContent, err, net, created, origErr, response>>

\* the variables of the other specifications stay as Init leaves them
OthersIdle == UNCHANGED <<extractVars, now, serverVars>>

Next ==
    \/ ParseRequest /\ OthersIdle
    \/ CreateTempDir /\ OthersIdle
    \/ ExtractUpload /\ OthersIdle
    \/ HoistUpload /\ OthersIdle
    \/ ValidateUrl /\ OthersIdle
    \/ GitClone /\ OthersIdle
    \/ FetchBranch /\ OthersIdle
    \/ TryDownload /\ OthersIdle
    \/ DownloadExhausted /\ OthersIdle
    \/ HoistDownload /\ OthersIdle
    \/ ExtractAuth /\ OthersIdle
    \/ GenerateFile /\ OthersIdle
    \/ CleanupAndRespond /\ OthersIdle
    \/ InnerCatch /\ OthersIdle
    \/ OuterCatch /\ OthersIdle

Spec == Init /\ [][Next]_vars

----------------------------------------------------------------------------
(* Properties of the request handler.                                      *)

Done == pc = "done"

IsErrorResponse(r) == r.status \in {400, 500} /\ "error" \in DOMAIN r

\* the archive requests issued so far, in order
RECURSIVE Fetches(_)
Fetches(log) ==
    IF log = <<>> THEN <<>>
    ELSE LET init == Fetches(SubSeq(log, 1, Len(log) - 1))
             last == log[Len(log)]
         IN  IF last.call = "fetch" THEN Append(init, last.url) ELSE init

\* C1: once the temporary directory was created, it has been removed by the
\* time the handler returns its response, whatever the exit path.
C1_TreeDeletedOnEveryExit == (Done /\ created) => ~dirExists

\* C2: a failing cleanup never replaces the error that made the request fail,
\* and never fails a request whose extraction and rendering succeeded.
C2_CleanupNeverMasks ==
    Done =>
        /\ fileContent # NoContent => resp.status = 200
        /\ (created /\ origErr # NoErr /\ fileContent = NoContent) =>
                (IsErrorResponse(resp) /\ resp.error = origErr)

InvalidUrl ==
    /\ request.wellFormed
    /\ request.repoUrl # <<>>
    /\ ~GithubRegexMatches(request.repoUrl)

\* C4: a URL that is not https://github.com/<owner>/<repo>[.git] ends the
\* request in failure at once: no clone, no branch-info request, no download.
C4_InvalidUrlFailsAtOnce ==
    InvalidUrl =>
        /\ net = <<>>
        /\ pc \in {"start", "mkdir", "validate_url", "outer_catch", "done"}
        /\ Done => IsErrorResponse(resp)
        /\ (Done /\ created) => resp = ErrorResponse(Error("Invalid GitHub repository URL"), 400)

C4_Witness == InvalidUrl /\ Done /\ created /\ resp.status = 400

\* C5: the clone comes first and once; the branch-info request and the archive
\* requests are issued only after the clone failed, branch info before any
\* archive request; a successful clone reaches Ready with nothing else issued.
C5_AcquisitionOrder ==
    /\ \A i \in 1..Len(net) : (net[i].call = "clone") <=> (i = 1)
    /\ \A i \in 1..Len(net) : (net[i].call = "branch_info") <=> (i = 2)
    /\ Len(net) >= 2 => ~net[1].ok
    /\ (Len(net) >= 1 /\ net[1].ok) =>
            /\ Len(net) = 1
            /\ pc \notin {"fetch_branch", "download", "after_loop"}
            /\ ~downloaded
    /\ pc \in {"fetch_branch", "download", "after_loop"} => (Len(net) >= 1 /\ ~net[1].ok)

C5_Witness == pc = "extract_auth" /\ Len(net) = 1 /\ net[1].ok

\* the candidate list for a default branch, written out
CandidateBranches(b) ==
    IF b = "main" THEN <<"main", "master">>
    ELSE IF b = "master" THEN <<"master", "main">>
    ELSE <<b, "main", "master">>

\* the branch-info request failed: exception, non-OK status, unreadable
\* body, or a body without a default branch
BranchInfoFailed(r) == r.outcome # "ok" \/ r.default_branch = ""

\* C6: the candidate list is [defaultBranch, "main", "master"] without
\* duplicates, first occurrences kept, and defaultBranch is "main" whenever
\* the branch-info request failed.
C6_CandidateBranches ==
    Len(net) >= 2 =>
        /\ BranchInfoFailed(net[2].result) => defaultBranch = "main"
        /\ ~BranchInfoFailed(net[2].result) => defaultBranch = net[2].result.default_branch
        /\ branchesToTry = CandidateBranches(defaultBranch)

C6_Witness ==
    /\ Len(net) >= 2
    /\ net[2].result.outcome = "ok"
    /\ net[2].result.default_branch = ""
    /\ branchesToTry = <<"main", "master">>

\* the (branch, URL format) combinations of a candidate list, branch-major,
\* formats in the order archive, zipball, refs/heads
ExpectedAttempts(o, r, branches) ==
    [i \in 1..(3 * Len(branches)) |->
        [format |-> <<"archive", "zipball", "refs_heads">>[((i - 1) % 3) + 1],
         owner |-> o, repo |-> r,
         branch |-> branches[((i - 1) \div 3) + 1]]]

DownloadFailed == origErr.message = "Failed to download repository"

\* C7: when the clone and every archive request fail, each combination of the
\* de-duplicated candidate list and the three URL formats is attempted exactly
\* once, branch-major, formats in order, and only then the download failure is
\* raised; each iteration issues one request and moves to the next position,
\* so the loop ends after at most nine requests.
C7_ExhaustiveOrderedAttempts ==
    /\ []((DownloadFailed \/ (pc = "after_loop" /\ ~downloaded)) =>
            /\ Fetches(net) =
                 ExpectedAttempts(owner, repo, CandidateBranches(defaultBranch))
            /\ Len(Fetches(net)) = 9 - 3 * (3 - Len(branchesToTry))
            /\ Len(Fetches(net)) \in {6, 9})
    /\ [](pc = "download" =>
            /\ bi \in 1..Len(branchesToTry)
            /\ fi \in 1..3
            /\ Len(Fetches(net)) = 3 * (bi - 1) + (fi - 1))
    /\ [][pc = "download" => Len(net') = Len(net) + 1]_vars
    /\ [][(pc = "after_loop" /\ ~downloaded) =>
            (pc' = "inner_catch" /\ err' = DownloadFailure(branchesToTry, errors))]_vars
    /\ [](Done \/ ENABLED Next)

C7_Witness == Done /\ DownloadFailed /\ Len(Fetches(net)) = 9

ZipResponse(r) == r.ok /\ Len(r.body) > 0 /\ IsZipFile(r.body)

C9_EveryAttemptReported ==
    (Done /\ DownloadFailed) =>
        /\ IsErrorResponse(resp)
        /\ resp.error.details =
             [i \in 1..Len(Fetches(net)) |->
                [branch |-> Fetches(net)[i].branch, url |-> Fetches(net)[i]]]

\* the tree right after an archive was extracted into it
AtHoist == pc = "hoist_upload" \/ (pc = "after_loop" /\ downloaded)

\* C10: after an archive is extracted the wrapper's contents are hoisted
\* exactly when there is exactly one top-level directory, the layout is
\* otherwise unchanged, and the hoist loses or overwrites no top-level entry.
C10_HoistExactlySingleTopDir ==
    [][AtHoist =>
        LET dirs == {n \in DOMAIN tree : tree[n].kind = "dir"}
        IN  IF Cardinality(dirs) = 1
            THEN LET d == CHOOSE n \in dirs : TRUE
                 IN  /\ \A k \in DOMAIN tree[d].kids :
                            k \in DOMAIN tree' /\ tree'[k] = tree[d].kids[k]
                     /\ \A n \in DOMAIN tree \ {d} :
                            n \in DOMAIN tree' /\ tree'[n] = tree[n]
            ELSE tree' = tree]_vars

----------------------------------------------------------------------------
(* Source text.  The content of a source file is a sequence of tokens: a   *)
(* word (\w+), a quoted string literal (its text without the quotes) or a  *)
(* punctuation mark.  White space between tokens is not represented: the   *)
(* patterns below allow \s* wherever two tokens meet, and the literal      *)
(* phrases searched with includes() are written in the files with the      *)
(* single spaces the phrases have.  A text (a name, a file path) is a      *)
(* sequence of pieces, like the strings of the handler.                    *)

W(v) == [k |-> "word", v |-> v]

Q(v) == [k |-> "string", v |-> v]

P(v) == [k |-> "punct", v |-> v]

\* <<text, keyword>>: the keyword occurs inside the longer text of one token
Substrings ==
    { <<"roles", "role">>, <<"permissions", "permission">>,
      <<"asyncHandler", "async">> }

\* content.includes(keyword) for a keyword that lies within one token
Has(content, keyword) ==
    \E i \in 1..Len(content) :
        \/ content[i].v = keyword
        \/ <<content[i].v, keyword>> \in Substrings

\* content.includes(phrase) for a phrase of several tokens
HasPhrase(content, phrase) == Includes(content, phrase)

RECURSIVE Split(_, _)
\* String.prototype.split(sep): the pieces between the separators
Split(s, sep) ==
    LET i == IndexOfFrom(s, sep, 1) IN
    IF i = 0 THEN <<s>>
    ELSE <<SubSeq(s, 1, i - 1)>> \o Split(SubSeq(s, i + 1, Len(s)), sep)

\* s.trim().replace(/["']/g, ''): the text of the piece without its quotes
TextOf(piece) == [i \in 1..Len(piece) |-> piece[i].v]

\* the text of one word
Text(w) == <<w>>

\* string contents that are not \w+
NotAWord == {"firebase/auth", "Set-Cookie", "No authentication token", ""}

Min(S) == CHOOSE x \in S : \A y \in S : x <= y

\* /(?:const|let|var)\s+NAME\s*=\s*OPEN([^CLOSE]+)CLOSE/s tried at token i:
\* the index of the closing mark, 0 when the pattern does not match there
DeclarationAt(c, i, names, open, close) ==
    IF /\ i + 5 <= Len(c)
       /\ c[i] \in {W("const"), W("let"), W("var")}
       /\ c[i + 1] \in {W(n) : n \in names}
       /\ c[i + 2] = P("=")
       /\ c[i + 3] = P(open)
    THEN LET j == IndexOfFrom(c, P(close), i + 4) IN
         IF j > i + 4 THEN j ELSE 0
    ELSE 0

\* capture 1 of the leftmost match of the declaration pattern, <<>> if none
DeclarationBody(c, names, open, close) ==
    LET I == {i \in 1..Len(c) : DeclarationAt(c, i, names, open, close) > 0} IN
    IF I = {} THEN <<>>
    ELSE SubSeq(c, Min(I) + 4, DeclarationAt(c, Min(I), names, open, close) - 1)

----------------------------------------------------------------------------
(* The role-model extractor.                                               *)

RoleDefinition(name, permissions) == [name |-> name, permissions |-> permissions]

PermissionDefinition(name) == [name |-> name]

\* roles.find(r => r.name === name) is truthy
Find(list, name) == \E i \in 1..Len(list) : list[i].name = name

RECURSIVE PushMissing(_, _)
\* push each item in turn unless the list already has one of its name
PushMissing(list, items) ==
    IF items = <<>> THEN list
    ELSE PushMissing(IF Find(list, Head(items).name) THEN list
                     ELSE Append(list, Head(items)),
                     Tail(items))

\* the names a bracketed list declares: split(','), trim, strip the quotes,
\* drop the empty ones
ListedNames(body) ==
    LET pieces == Split(body, P(",")) IN
    SelectSeq([i \in 1..Len(pieces) |-> TextOf(pieces[i])], LAMBDA n : n # <<>>)

\* entry.match(/(\w+):\s*\[([^\]]+)\]/) tried at token i: index of the "]", or 0
EntryAt(entry, i) ==
    IF /\ i + 4 <= Len(entry)
       /\ entry[i].k = "word"
       /\ entry[i + 1] = P(":")
       /\ entry[i + 2] = P("[")
    THEN LET j == IndexOfFrom(entry, P("]"), i + 3) IN
         IF j > i + 3 THEN j ELSE 0
    ELSE 0

\* the roles one entry of a role object yields: none when the pattern fails
EntryRoles(entry) ==
    LET I == {i \in 1..Len(entry) : EntryAt(entry, i) > 0} IN
    IF I = {} THEN <<>>
    ELSE LET i == Min(I)
             inner == SubSeq(entry, i + 3, EntryAt(entry, i) - 1)
             pieces == Split(inner, P(","))
             perms == [n \in 1..Len(pieces) |-> TextOf(pieces[n])]
         IN  <<RoleDefinition(Text(entry[i].v), perms)>>

RECURSIVE Flatten(_)
Flatten(ss) == IF ss = <<>> THEN <<>> ELSE Head(ss) \o Flatten(Tail(ss))

commonRoles == <<"admin", "user", "viewer", "editor", "moderator", "guest">>

\* includes(`role === "x"`) || includes(`role: "x"`), either kind of quote
RolePhrase(content, roleName) ==
    \/ HasPhrase(content, <<W("role"), P("==="), Q(roleName)>>)
    \/ HasPhrase(content, <<W("role"), P(":"), Q(roleName)>>)

\* the captures of /user\.role\s*[=:]\s*["'](\w+)["']/g, in order
UserRoleMatches(content) ==
    LET at(i) == /\ i + 4 <= Len(content)
                 /\ content[i] = W("user")
                 /\ content[i + 1] = P(".")
                 /\ content[i + 2] = W("role")
                 /\ content[i + 3] \in {P("="), P(":")}
                 /\ content[i + 4].k = "string"
                 /\ content[i + 4].v \notin NotAWord
        hits == SelectSeq([i \in 1..Len(content) |-> i], at)
    IN  [n \in 1..Len(hits) |-> Text(content[hits[n] + 4].v)]

extractRoles(content) ==
    LET noPermissions(name) == RoleDefinition(name, <<>>)
        array == DeclarationBody(content, {"role", "roles"}, "[", "]")
        listed == ListedNames(array)
        fromArray == [i \in 1..Len(listed) |-> noPermissions(listed[i])]
        object == DeclarationBody(content, {"role", "roles"}, "{", "}")
        roleEntries == Split(object, P(","))
        fromObject == Flatten([i \in 1..Len(roleEntries) |-> EntryRoles(roleEntries[i])])
        named == SelectSeq(commonRoles, LAMBDA r : RolePhrase(content, r))
        common == PushMissing(fromArray \o fromObject,
                              [i \in 1..Len(named) |-> noPermissions(Text(named[i]))])
        userRoles == UserRoleMatches(content)
    IN  PushMissing(common,
                    [i \in 1..Len(userRoles) |-> noPermissions(userRoles[i])])

\* the captures of /(?:hasPermission|can|checkPermission)\s*\([^,]+,\s*["'](\w+)["']/g
PermissionCheckMatches(content) ==
    LET close(i) == IndexOfFrom(content, P(","), i + 2)
        at(i) == /\ i + 4 <= Len(content)
                 /\ content[i] \in {W("hasPermission"), W("can"), W("checkPermission")}
                 /\ content[i + 1] = P("(")
                 /\ close(i) > i + 2
                 /\ close(i) < Len(content)
                 /\ content[close(i) + 1].k = "string"
                 /\ content[close(i) + 1].v \notin NotAWord
        hits == SelectSeq([i \in 1..Len(content) |-> i], at)
    IN  [n \in 1..Len(hits) |-> Text(content[close(hits[n]) + 1].v)]

commonPermissions ==
    <<"read", "write", "delete", "update", "create", "view", "edit", "admin">>

extractPermissions(content) ==
    LET array == DeclarationBody(content, {"permission", "permissions"}, "[", "]")
        listed == ListedNames(array)
        fromArray == [i \in 1..Len(listed) |-> PermissionDefinition(listed[i])]
        calls == PermissionCheckMatches(content)
        checked == PushMissing(fromArray,
                               [i \in 1..Len(calls) |-> PermissionDefinition(calls[i])])
        named == SelectSeq(commonPermissions,
                           LAMBDA p : HasPhrase(content,
                                          <<W("permission"), P("==="), Q(p)>>))
    IN  PushMissing(checked,
                    [i \in 1..Len(named) |-> PermissionDefinition(Text(named[i]))])

\* the tokens between the mark at b and the first closing mark after it
Enclosed(c, b, close) == SubSeq(c, b + 1, IndexOfFrom(c, P(close), b + 1) - 1)

\* \{([^}]+(?:\{[^}]*\}[^}]*)*)\} tried at token b: [^}]+ runs to the first
\* "}", which the closing \} then takes, so the capture ends there
BlockAt(c, b) ==
    /\ b <= Len(c)
    /\ c[b] = P("{")
    /\ IndexOfFrom(c, P("}"), b + 1) > b + 1

\* the text contains "role" or "Role"
NamesRole(v) ==
    \/ v \in {"role", "Role"}
    \/ <<v, "role">> \in Substrings
    \/ <<v, "Role">> \in Substrings

\* null (here <<>>) or the body of the first role check found
extractRoleCheckPattern(content) ==
    LET blocks(i) == {b \in (i + 3)..Len(content) : BlockAt(content, b)}
        fn(i) == /\ i + 2 <= Len(content)
                 /\ content[i] \in {W("function"), W("const")}
                 /\ content[i + 1].k = "word"
                 /\ NamesRole(content[i + 1].v)
                 /\ content[i + 2] \in {P("="), P("(")}
                 /\ blocks(i) # {}
        inline(i) == /\ i + 2 <= Len(content)
                     /\ content[i] = W("role")
                     /\ content[i + 1] \in {P("==="), P("!==")}
                     /\ content[i + 2].k = "string"
                     /\ content[i + 2].v \notin NotAWord
        paren(i) == IndexOfFrom(content, P(")"), i + 2)
        cond(i) == /\ i + 1 <= Len(content)
                   /\ content[i] = W("if")
                   /\ content[i + 1] = P("(")
                   /\ paren(i) > 0
                   /\ \E j \in (i + 2)..(paren(i) - 1) : NamesRole(content[j].v)
                   /\ BlockAt(content, paren(i) + 1)
        fns == {i \in 1..Len(content) : fn(i)}
        inlines == {i \in 1..Len(content) : inline(i)}
        conds == {i \in 1..Len(content) : cond(i)}
    IN  IF fns # {} THEN Enclosed(content, Min(blocks(Min(fns))), "}")
        ELSE IF inlines # {}
        THEN <<W("role"), P("==="), Q(content[Min(inlines) + 2].v)>>
        ELSE IF conds # {} THEN Enclosed(content, paren(Min(conds)) + 1, "}")
        ELSE <<>>

\* file paths: the directories from the root, the base name and the extension
Path(dirs, base, ext) == [dirs |-> dirs, base |-> base, ext |-> ext]

\* the empty string as a path
NoPath == Path(<<>>, "", "")

\* an entry of the working tree: a file with its content, or a directory
SourceFile(path, content) == [path |-> path, content |-> content, dir |-> FALSE]

Directory(path) == [path |-> path, content |-> <<>>, dir |-> TRUE]

\* what glob returns with { cwd: repoPath, absolute: true }
Absolute(repoPath, path) == [path EXCEPT !.dirs = repoPath \o @]

\* s.replace(t, ''): s without the first occurrence of t
Replace(s, t) ==
    LET I == {i \in 0..(Len(s) - Len(t)) : \A j \in 1..Len(t) : s[i + j] = t[j]} IN
    IF I = {} \/ t = <<>> THEN s
    ELSE SubSeq(s, 1, Min(I)) \o SubSeq(s, Min(I) + Len(t) + 1, Len(s))

\* filePath.replace(repoPath, '')
Relative(filePath, repoPath) == [filePath EXCEPT !.dirs = Replace(@, repoPath)]

\* glob.sync('**/*.{ts,tsx,js}', { cwd: repoPath, absolute: true })
SourceExtensions == {"ts", "tsx", "js"}

\* the files of fs, in order, that pass a test
Glob(fs, Matches(_)) == SelectSeq(fs, Matches)

IsSource(f) == f.path.ext \in SourceExtensions

----------------------------------------------------------------------------
(* Objects and maps of the language.                                       *)

\* the value undefined
Undefined == [undefined |-> TRUE]

\* an array as the value of a property that may also be undefined
Array(list) == [array |-> list]

\* a set that adds an entry whether or not the key is there already
MapSetAppends(m, key, value) == Append(m, [key |-> key, value |-> value])

\* a set that leaves the entry of an existing key as it is
MapSetKeepsOld(m, key, value) ==
    IF \E i \in 1..Len(m) : m[i].key = key THEN m
    ELSE Append(m, [key |-> key, value |-> value])

\* Map.prototype.set on the entries of a map, kept in insertion order: an
\* existing key keeps its place and takes the new value
MapSet(m, key, value) ==
    IF \E i \in 1..Len(m) : m[i].key = key
    THEN [i \in 1..Len(m) |-> IF m[i].key = key
                              THEN [key |-> key, value |-> value] ELSE m[i]]
    ELSE Append(m, [key |-> key, value |-> value])

RECURSIVE NewMap(_)
\* new Map(entries): the entries are set one after the other
NewMap(entries) ==
    IF entries = <<>> THEN <<>>
    ELSE MapSet(NewMap(SubSeq(entries, 1, Len(entries) - 1)),
                entries[Len(entries)].key, entries[Len(entries)].value)

\* Array.from(map.values())
MapValues(m) == [i \in 1..Len(m) |-> m[i].value]

\* Array.from(new Map(list.map(r => [r.name, r])).values())
UniqueByName(list) ==
    MapValues(NewMap([i \in 1..Len(list) |-> [key |-> list[i].name, value |-> list[i]]]))

\* String.prototype.toLowerCase on the names of the model
ToLowerCase(v) ==
    CASE v = "Admin" -> "admin"
      [] v = "ADMIN" -> "admin"
      [] v = "Guest" -> "guest"
      [] v = "Owner" -> "owner"
      [] OTHER -> v

levelMap ==
    [admin |-> 3, moderator |-> 2, editor |-> 2, user |-> 1, viewer |-> 1, guest |-> 0]

\* lower-case property names every object inherits from Object.prototype
InheritedKeys == {"constructor"}

\* levelMap[key]: the own property, else the inherited one, else undefined
Lookup(object, key) ==
    IF key \in DOMAIN object THEN [type |-> "number", n |-> object[key]]
    ELSE IF key \in InheritedKeys THEN [type |-> "function", n |-> 0]
    ELSE [type |-> "undefined", n |-> 0]

\* truthiness of a looked-up value
Truthy(x) ==
    \/ x.type = "function"
    \/ x.type = "number" /\ x.n # 0

\* role.name.toLowerCase() as a property key; a name of several pieces is no key
KeyOf(name) == IF Len(name) = 1 THEN ToLowerCase(name[1]) ELSE ""

extractHierarchy(roles) ==
    LET hierarchy ==
            SelectSeq([i \in 1..Len(roles) |->
                          [key |-> roles[i].name,
                           value |-> Lookup(levelMap, KeyOf(roles[i].name))]],
                      LAMBDA e : Truthy(e.value))
    IN  IF Len(hierarchy) = 0 THEN Undefined ELSE [levels |-> hierarchy]

RoleKeywords ==
    {"role", "Role", "permission", "Permission", "admin", "user", "RBAC", "ABAC"}

\* the candidate facts of all role files, in file order, before deduplication
RoleFiles(fs) ==
    Glob(fs, LAMBDA f : IsSource(f) /\ \E k \in RoleKeywords : Has(f.content, k))

CandidateRoles(fs) ==
    LET roleFiles == RoleFiles(fs) IN
    Flatten([i \in 1..Len(roleFiles) |-> extractRoles(roleFiles[i].content)])

CandidatePermissions(fs) ==
    LET roleFiles == RoleFiles(fs) IN
    Flatten([i \in 1..Len(roleFiles) |-> extractPermissions(roleFiles[i].content)])

extractRoleModel(repoPath, fs) ==
    LET roleFiles == RoleFiles(fs)
        checked == SelectSeq(roleFiles,
                             LAMBDA f : extractRoleCheckPattern(f.content) # <<>>)
        implementation ==
            IF checked = <<>>
            THEN [filePath |-> NoPath, template |-> <<>>, checkPattern |-> <<>>]
            ELSE [filePath |-> Relative(Absolute(repoPath, checked[1].path), repoPath),
                  template |-> checked[1].content,
                  checkPattern |-> extractRoleCheckPattern(checked[1].content)]
        uniqueRoles == UniqueByName(CandidateRoles(fs))
    IN  [roles |-> uniqueRoles,
         permissions |-> UniqueByName(CandidatePermissions(fs)),
         implementation |-> implementation,
         hierarchy |-> extractHierarchy(uniqueRoles)]

----------------------------------------------------------------------------
(* The permission-check extractor.                                         *)

HasAny(content, keywords) == \E k \in keywords : Has(content, k)

\* includes('cookies.get')
HasCookiesGet(content) == HasPhrase(content, <<W("cookies"), P("."), W("get")>>)

\* includes('status: 401') || includes('status:401')
HasStatus401(content) == HasPhrase(content, <<W("status"), P(":"), W("401")>>)

\* a filter that lets every API route file through
IsAnyRoute(content) == TRUE

\* the condition under which an API route file is looked at
IsProtectedRoute(content) ==
    \/ HasAny(content, {"authMiddleware", "requireAuth", "checkAuth", "verifyToken",
                        "unauthorized", "Unauthorized"})
    \/ HasCookiesGet(content) /\ HasAny(content, {"it", "idToken", "access_token", "at"})
    \/ HasStatus401(content)
    \/ HasPhrase(content, <<W("statusCode"), P(":"), W("401")>>)
    \/ HasAny(content, {"No authentication token", "Authentication required",
                        "JWT", "jwt", "idToken", "id_token"})

\* the segments of a path between the slashes
Segments(path) == Append(path.dirs, path.base)

\* the segment begins with "route"
StartsWithRoute(v) == v \in {"route", "routes"}

\* the segment ends with "api"
EndsWithApi(v) == v = "api"

Max(S) == CHOOSE x \in S : \A y \in S : x >= y

\* filePath.match(/api\/([^/]+(?:\/[^/]+)*)\/route/): the leftmost "api/", the
\* longest run of segments behind it that is followed by "/route"
RouteMatch(filePath) ==
    LET s == Segments(filePath)
        ends(i) == {j \in (i + 2)..Len(s) : StartsWithRoute(s[j])}
        I == {i \in 1..Len(s) : EndsWithApi(s[i]) /\ ends(i) # {}}
    IN  IF I = {} THEN <<>>
        ELSE SubSeq(s, Min(I) + 1, Max(ends(Min(I))) - 1)

\* the endpoint of an API route file
Endpoint(filePath, repoPath) ==
    LET pathMatch == RouteMatch(filePath)
        relative == Relative(filePath, repoPath)
        apis == {i \in 1..Len(filePath.dirs) : EndsWithApi(filePath.dirs[i])}
    IN  IF pathMatch # <<>> THEN Path(<<"api">> \o pathMatch, "", "")
        ELSE IF relative.dirs # <<>> /\ relative.dirs[1] = "api" THEN relative
        ELSE IF apis # {}
        THEN [filePath EXCEPT
                 !.dirs = <<"api">> \o SubSeq(@, Min(apis) + 1, Len(filePath.dirs))]
        ELSE relative

HttpMethods == <<"GET", "POST", "PUT", "PATCH", "DELETE">>

\* includes('export async function M')
Exports(content, method) ==
    HasPhrase(content, <<W("export"), W("async"), W("function"), W(method)>>)

Method(content) ==
    LET found == SelectSeq(HttpMethods, LAMBDA m : Exports(content, m)) IN
    IF found = <<>> THEN "GET" ELSE found[1]

\* the auth branch of the protection type of API guards and protected routes
HasAuthSignal(content) ==
    \/ HasAny(content, {"authMiddleware", "verifyToken"})
    \/ HasCookiesGet(content) /\ HasAny(content, {"it", "idToken", "at"})
    \/ HasAny(content, {"No authentication token", "Authentication required"})
    \/ HasStatus401(content)

RouteProtection(content) ==
    IF HasAny(content, {"checkRole", "role", "admin"}) THEN "role"
    ELSE IF HasAny(content, {"checkPermission", "permission"}) THEN "permission"
    ELSE IF HasAuthSignal(content) THEN "auth"
    ELSE "custom"

\* the text ends with "Middleware", or begins with one of the two names
IsMiddlewareName(v) ==
    v \in {"authMiddleware", "roleMiddleware", "verifyToken"}

\* capture 2 of /(?:const|await)\s+(\w+)\s*=\s*(?:await\s+)?(\w+Middleware|
\* authMiddleware|verifyToken)/, else the named protection pattern
GuardMiddleware(content) ==
    LET callee(i) == IF content[i + 3] = W("await") THEN i + 4 ELSE i + 3
        at(i) == /\ i + 3 <= Len(content)
                 /\ content[i] \in {W("const"), W("await")}
                 /\ content[i + 1].k = "word"
                 /\ content[i + 2] = P("=")
                 /\ callee(i) <= Len(content)
                 /\ content[callee(i)].k = "word"
                 /\ IsMiddlewareName(content[callee(i)].v)
        I == {i \in 1..Len(content) : at(i)}
    IN  IF I # {} THEN Text(content[callee(Min(I))].v)
        ELSE IF HasCookiesGet(content) THEN Text("cookie-based-auth")
        ELSE IF HasAny(content, {"JWT", "jwt"}) THEN Text("jwt-verification")
        ELSE <<>>

extractAPIGuard(content, filePath, repoPath) ==
    [endpoint |-> Endpoint(filePath, repoPath),
     method |-> Method(content),
     protection |-> RouteProtection(content),
     middleware |-> GuardMiddleware(content),
     filePath |-> Relative(filePath, repoPath),
     template |-> content]

\* capture 1 of /NAME\s*[=!]==\s*["'](\w+)["']/, <<>> for undefined
Compared(content, name) ==
    LET at(i) == /\ i + 2 <= Len(content)
                 /\ content[i] = W(name)
                 /\ content[i + 1] \in {P("==="), P("!==")}
                 /\ content[i + 2].k = "string"
                 /\ content[i + 2].v \notin NotAWord
        I == {i \in 1..Len(content) : at(i)}
    IN  IF I = {} THEN <<>> ELSE Text(content[Min(I) + 2].v)

extractProtectedRoute(content, filePath, repoPath) ==
    [path |-> Endpoint(filePath, repoPath),
     protection |-> RouteProtection(content),
     requiredRole |-> IF RouteProtection(content) = "role"
                      THEN Compared(content, "role") ELSE <<>>,
     requiredPermission |-> IF RouteProtection(content) = "permission"
                            THEN Compared(content, "permission") ELSE <<>>,
     implementation |-> content]

\* the first n elements: Array.prototype.slice(0, n)
Slice(s, n) == SubSeq(s, 1, IF Len(s) < n THEN Len(s) ELSE n)

\* the base name contains the word
BaseHas(f, word) == f.path.base = word \/ <<f.path.base, word>> \in Substrings

\* content.match(/(?:export\s+)?(?:async\s+)?(?:function\s+)?middleware\s*
\* \([^)]*\)\s*\{([\s\S]*?)\}/): the index of the "{" of the leftmost match, or 0
MiddlewareMatch(content) ==
    LET paren(i) == IndexOfFrom(content, P(")"), i + 2)
        at(i) == /\ i + 1 <= Len(content)
                 /\ content[i] = W("middleware")
                 /\ content[i + 1] = P("(")
                 /\ paren(i) > 0
                 /\ paren(i) < Len(content)
                 /\ content[paren(i) + 1] = P("{")
                 /\ IndexOfFrom(content, P("}"), paren(i) + 2) > 0
        I == {i \in 1..Len(content) : at(i)}
    IN  IF I = {} THEN 0 ELSE paren(Min(I)) + 1

MiddlewareChecks(content) ==
    SelectSeq(<<"auth", "token", "role", "permission">>,
              LAMBDA c : Has(content, CASE c = "auth" -> "authMiddleware"
                                        [] c = "token" -> "verifyToken"
                                        [] c = "role" -> "checkRole"
                                        [] c = "permission" -> "checkPermission"))

\* a sequence of at most one pattern: empty for null
extractMiddlewarePattern(content, filePath, repoPath) ==
    IF MiddlewareMatch(content) = 0 THEN <<>>
    ELSE <<[name |-> "middleware",
            type |-> "global",
            filePath |-> Relative(filePath, repoPath),
            template |-> Enclosed(content, MiddlewareMatch(content), "}"),
            location |-> "middleware.ts",
            checks |-> MiddlewareChecks(content)]>>

\* includes('router.push') && (includes('signin') || includes('login'))
PushesToLogin(content, router) ==
    /\ router
    /\ HasAny(content, {"signin", "login"})

IsGuardedComponent(content) ==
    \/ HasAny(content, {"useAuth", "useSession", "isAuthenticated", "requireAuth",
                        "checkAuth"})
    \/ PushesToLogin(content, HasPhrase(content, <<W("router"), P("."), W("push")>>))
    \/ Has(content, "useRouter") /\ Has(content, "push")

\* capture 1 of /(?:export\s+)?(?:default\s+)?(?:function|const)\s+(\w+)/
ComponentName(content) ==
    LET I == {i \in 1..(Len(content) - 1) :
                 /\ content[i] \in {W("function"), W("const")}
                 /\ content[i + 1].k = "word"}
    IN  IF I = {} THEN Text("Component") ELSE Text(content[Min(I) + 1].v)

HasComparison(content) == HasAny(content, {"===", "!=="})

ComponentProtection(content) ==
    IF Has(content, "role") /\ HasComparison(content) THEN "role"
    ELSE IF Has(content, "permission") /\ HasComparison(content) THEN "permission"
    ELSE "auth"

extractComponentGuard(content, filePath, repoPath) ==
    [component |-> ComponentName(content),
     protection |-> ComponentProtection(content),
     requiredRole |-> IF ComponentProtection(content) = "role"
                      THEN Compared(content, "role") ELSE <<>>,
     requiredPermission |-> IF ComponentProtection(content) = "permission"
                            THEN Compared(content, "permission") ELSE <<>>,
     filePath |-> Relative(filePath, repoPath),
     template |-> content]

IsGuardedPage(content) ==
    \/ HasAny(content, {"useAuth", "isAuthenticated"})
    \/ PushesToLogin(content, Has(content, "router") /\ Has(content, "push"))

\* path.match(/DIR\/(.+?)(?:\/STOP|$)/) on the relative path: the leftmost
\* directory DIR, the shortest run behind it up to a segment that begins with
\* STOP, else the rest of the path
PageRoute(path, dir, stop) ==
    LET s == Segments(path)
        dirsAt == {i \in 1..Len(path.dirs) : path.dirs[i] = dir}
        stops(i) == {j \in (i + 2)..Len(s) : s[j] = stop}
    IN  IF dirsAt = {} THEN path
        ELSE IF stops(Min(dirsAt)) # {}
        THEN Path(SubSeq(s, Min(dirsAt) + 1, Min(stops(Min(dirsAt))) - 1), "", "")
        ELSE [path EXCEPT !.dirs = SubSeq(@, Min(dirsAt) + 1, Len(path.dirs))]

PageProtection(content) ==
    IF IsGuardedPage(content) THEN "auth"
    ELSE IF Has(content, "role") THEN "role"
    ELSE IF Has(content, "permission") THEN "permission"
    ELSE "custom"

extractPageRouteProtection(content, filePath, repoPath) ==
    LET relative == Relative(filePath, repoPath) IN
    [path |-> IF "app" \in {relative.dirs[i] : i \in 1..Len(relative.dirs)}
              THEN PageRoute(relative, "app", "page")
              ELSE IF "pages" \in {relative.dirs[i] : i \in 1..Len(relative.dirs)}
              THEN PageRoute(relative, "pages", "index")
              ELSE relative,
     protection |-> PageProtection(content),
     requiredRole |-> IF PageProtection(content) = "role"
                      THEN Compared(content, "role") ELSE <<>>,
     requiredPermission |-> IF PageProtection(content) = "permission"
                            THEN Compared(content, "permission") ELSE <<>>,
     implementation |-> content]

HasDir(f, dir) == \E i \in 1..Len(f.path.dirs) : f.path.dirs[i] = dir

extractPermissionChecks(repoPath, fs) ==
    LET abs(f) == Absolute(repoPath, f.path)
        middlewareFiles ==
            Glob(fs, LAMBDA f : IsSource(f) /\ BaseHas(f, "middleware"))
            \o Glob(fs, LAMBDA f : IsSource(f) /\ f.path.base = "middleware")
        middleware ==
            Flatten([i \in 1..Len(middlewareFiles) |->
                        extractMiddlewarePattern(middlewareFiles[i].content,
                                                 abs(middlewareFiles[i]), repoPath)])
        apiRouteFiles ==
            Glob(fs, LAMBDA f : /\ IsSource(f)
                                /\ HasDir(f, "api")
                                /\ ~HasDir(f, "node_modules"))
        protected == SelectSeq(apiRouteFiles, LAMBDA f : IsProtectedRoute(f.content))
        componentFiles ==
            Glob(fs, LAMBDA f : /\ f.path.ext \in {"tsx", "jsx"}
                                /\ IsGuardedComponent(f.content))
        componentGuards ==
            [i \in 1..Len(Slice(componentFiles, 20)) |->
                extractComponentGuard(componentFiles[i].content,
                                      abs(componentFiles[i]), repoPath)]
        pageFiles ==
            SelectSeq(
                Glob(fs, LAMBDA f : /\ f.path.ext \in {"tsx", "jsx"}
                                    /\ f.path.base = "page"
                                    /\ HasDir(f, "app"))
                \o Glob(fs, LAMBDA f : /\ f.path.ext \in {"tsx", "jsx"}
                                       /\ HasDir(f, "pages")),
                LAMBDA f : IsGuardedPage(f.content))
    IN  [middleware |-> middleware,
         protectedRoutes |->
             [i \in 1..Len(protected) |->
                 extractProtectedRoute(protected[i].content, abs(protected[i]), repoPath)]
             \o [i \in 1..Len(Slice(pageFiles, 10)) |->
                    extractPageRouteProtection(pageFiles[i].content,
                                               abs(pageFiles[i]), repoPath)],
         apiGuards |->
             [i \in 1..Len(protected) |->
                 extractAPIGuard(protected[i].content, abs(protected[i]), repoPath)],
         componentGuards |->
             IF Len(componentGuards) > 0 THEN Array(componentGuards) ELSE Undefined]

----------------------------------------------------------------------------
(* The auth-provider extractor.                                            *)

\* words that are \d+
Digits == {"0", "60", "900", "3600", "401"}

\* parseInt on the numbers of the model
ParseInt(v) ==
    CASE v = "0" -> 0
      [] v = "60" -> 60
      [] v = "900" -> 900
      [] v = "3600" -> 3600
      [] v = "401" -> 401

\* capture 1 of /KEY:\s*["'](\w+)["']/, <<>> when there is no match
QuotedAfter(content, key) ==
    LET I == {i \in 1..(Len(content) - 2) :
                 /\ content[i] = W(key)
                 /\ content[i + 1] = P(":")
                 /\ content[i + 2].k = "string"
                 /\ content[i + 2].v \notin NotAWord}
    IN  IF I = {} THEN <<>> ELSE Text(content[Min(I) + 2].v)

\* NAME:\s*async?\s*\([^)]*\)\s*=>\s*\{ tried at token i: index of the "{", or 0
ArrowAt(content, i, name) ==
    LET paren == IndexOfFrom(content, P(")"), i + 4) IN
    IF /\ i + 3 <= Len(content)
       /\ content[i] = W(name)
       /\ content[i + 1] = P(":")
       /\ content[i + 2] \in {W("async"), W("asyn")}
       /\ content[i + 3] = P("(")
       /\ paren > 0
       /\ paren + 2 <= Len(content)
       /\ content[paren + 1] = P("=>")
       /\ content[paren + 2] = P("{")
    THEN paren + 2
    ELSE 0

\* null (here <<>>) or the trimmed body of the callback
extractCallback(content, callbackName) ==
    LET I == {i \in 1..Len(content) :
                 /\ ArrowAt(content, i, callbackName) > 0
                 /\ BlockAt(content, ArrowAt(content, i, callbackName))}
    IN  IF I = {} THEN <<>>
        ELSE Enclosed(content, ArrowAt(content, Min(I), callbackName), "}")

RECURSIVE BlockEnd(_, _, _, _)
\* the loop of extractCodeBlock from token i: the index behind the "}" that
\* brings the count of open braces back to zero, 0 when the loop runs out
BlockEnd(content, i, braceCount, inBlock) ==
    IF i > Len(content) THEN 0
    ELSE IF content[i] = P("{") THEN BlockEnd(content, i + 1, braceCount + 1, TRUE)
    ELSE IF content[i] = P("}")
    THEN IF inBlock /\ braceCount - 1 = 0 THEN i
         ELSE BlockEnd(content, i + 1, braceCount - 1, inBlock)
    ELSE BlockEnd(content, i + 1, braceCount, inBlock)

\* the text from the start pattern to the end of its block; <<>> stands for
\* both null and the empty string, which the caller treats alike
extractCodeBlock(content, startPattern) ==
    LET I == {i \in 1..Len(content) : content[i] = W(startPattern)} IN
    IF I = {} \/ BlockEnd(content, Min(I), 0, FALSE) = 0 THEN <<>>
    ELSE SubSeq(content, Min(I), BlockEnd(content, Min(I), 0, FALSE))

CallbackPattern(name, implementation, filePath) ==
    [name |-> name, implementation |-> implementation, filePath |-> filePath]

\* the names pushed for the keywords the content includes, in the order given
Named(content, keywords, NameOf(_)) ==
    LET found == SelectSeq(keywords, LAMBDA k : Has(content, k)) IN
    [i \in 1..Len(found) |-> NameOf(found[i])]

extractNextAuth(content, filePath, repoPath) ==
    LET providers ==
            Named(content, <<"GoogleProvider", "EmailProvider", "GitHubProvider",
                             "CredentialsProvider">>,
                  LAMBDA k : CASE k = "GoogleProvider" -> "google"
                               [] k = "EmailProvider" -> "email"
                               [] k = "GitHubProvider" -> "github"
                               [] k = "CredentialsProvider" -> "credentials")
        adapter == IF Has(content, "PrismaAdapter") THEN "prisma"
                   ELSE IF Has(content, "FirestoreAdapter") THEN "firestore"
                   ELSE IF Has(content, "MongoDBAdapter") THEN "mongodb"
                   ELSE "undefined"
        sessionStrategy == IF QuotedAfter(content, "strategy") # <<>>
                           THEN QuotedAfter(content, "strategy") ELSE Text("jwt")
        sessionCallback == extractCallback(content, "session")
        jwtCallback == extractCallback(content, "jwt")
        template == extractCodeBlock(content, "authOptions")
    IN  [type |-> "next-auth",
         name |-> "NextAuth.js",
         configuration |-> [providers |-> providers, adapter |-> adapter,
                            strategy |-> sessionStrategy,
                            secret |-> "process.env.NEXTAUTH_SECRET"],
         implementation |-> [filePath |-> Relative(filePath, repoPath),
                             template |-> IF template # <<>> THEN template ELSE content,
                             setup |-> "next-auth route handler",
                             usage |-> "useSession"],
         callbacks |->
             (IF sessionCallback # <<>>
              THEN <<CallbackPattern("session", sessionCallback, filePath)>> ELSE <<>>)
             \o (IF jwtCallback # <<>>
                 THEN <<CallbackPattern("jwt", jwtCallback, filePath)>> ELSE <<>>)]

extractFirebaseAuth(content, filePath, repoPath) ==
    [type |-> "firebase",
     name |-> "Firebase Authentication",
     configuration |-> [providers |-> <<"firebase">>,
                        projectId |-> "process.env.FIREBASE_PROJECT_ID"],
     implementation |-> [filePath |-> Relative(filePath, repoPath), template |-> content,
                         setup |-> "firebase initializeApp", usage |-> "firebase signIn"]]

extractCognito(content, filePath, repoPath) ==
    [type |-> "cognito",
     name |-> "AWS Cognito",
     configuration |-> [providers |-> <<"cognito">>,
                        domain |-> "process.env.COGNITO_DOMAIN",
                        clientId |-> "process.env.COGNITO_CLIENT_ID"],
     implementation |-> [filePath |-> Relative(filePath, repoPath), template |-> content,
                         setup |-> "cognito configuration", usage |-> "cognito api routes"]]

\* <<text, keyword>>: the text begins with the keyword
Prefixes == { <<"firebaseClient", "firebase">> }

\* the base name begins with the word
BaseStarts(f, word) == f.path.base = word \/ <<f.path.base, word>> \in Prefixes

\* the bracket expression [...nextauth] of a glob matches one character
NextAuthClass == {".", "n", "e", "x", "t", "a", "u", "h"}

extractAuthProvider(repoPath, fs) ==
    LET nextAuth ==
            Glob(fs, LAMBDA f : IsSource(f) /\ f.path.base = "next-auth")
            \o Glob(fs, LAMBDA f : IsSource(f) /\ \E c \in NextAuthClass : HasDir(f, c))
        firebase ==
            Glob(fs, LAMBDA f : /\ IsSource(f)
                                /\ BaseStarts(f, "firebase")
                                /\ HasAny(f.content, {"firebase/auth", "signInWith"}))
        cognito ==
            Glob(fs, LAMBDA f : IsSource(f) /\ HasAny(f.content, {"cognito", "COGNITO"}))
        abs(f) == Absolute(repoPath, f.path)
    IN  IF nextAuth # <<>>
        THEN extractNextAuth(nextAuth[1].content, abs(nextAuth[1]), repoPath)
        ELSE IF firebase # <<>>
        THEN extractFirebaseAuth(firebase[1].content, abs(firebase[1]), repoPath)
        ELSE IF cognito # <<>>
        THEN extractCognito(cognito[1].content, abs(cognito[1]), repoPath)
        ELSE [type |-> "unknown",
              name |-> "Unknown",
              configuration |-> [providers |-> <<>>],
              implementation |-> [filePath |-> NoPath, template |-> <<>>,
                                  setup |-> "", usage |-> ""]]

----------------------------------------------------------------------------
(* The session-storage extractor.                                          *)

\* capture 1 of /KEY:\s*(\d+)/ as a number, -1 when there is no match
NumberAfter(content, key) ==
    LET I == {i \in 1..(Len(content) - 2) :
                 /\ content[i] = W(key)
                 /\ content[i + 1] = P(":")
                 /\ content[i + 2].v \in Digits}
    IN  IF I = {} THEN -1 ELSE ParseInt(content[Min(I) + 2].v)

\* includes('KEY: VALUE')
HasSetting(content, key, value) == HasPhrase(content, <<W(key), P(":"), W(value)>>)

\* includes('secure:') ? match(/secure:\s*(true|false)/)?.[1] === 'true' : true
Secure(content) ==
    IF HasPhrase(content, <<W("secure"), P(":")>>)
    THEN LET I == {i \in 1..(Len(content) - 2) :
                      /\ content[i] = W("secure")
                      /\ content[i + 1] = P(":")
                      /\ content[i + 2] \in {W("true"), W("false")}}
         IN  I # {} /\ content[Min(I) + 2] = W("true")
    ELSE TRUE

\* match(/sameSite:\s*["'](\w+)["']/)?.[1] || 'lax'
SameSite(content) ==
    IF QuotedAfter(content, "sameSite") # <<>>
    THEN QuotedAfter(content, "sameSite") ELSE Text("lax")

\* maxAgeMatch ? parseInt(maxAgeMatch[1]) : 3600
MaxAge(content) ==
    IF NumberAfter(content, "maxAge") >= 0 THEN NumberAfter(content, "maxAge") ELSE 3600

\* the body of the session callback, lazily to the first "}" (it may be
\* empty), else the content
extractSessionTemplate(content) ==
    LET I == {i \in 1..Len(content) :
                 /\ ArrowAt(content, i, "session") > 0
                 /\ IndexOfFrom(content, P("}"), ArrowAt(content, i, "session") + 1) > 0}
        body == Enclosed(content, ArrowAt(content, Min(I), "session"), "}")
    IN  IF I # {} THEN body ELSE content

extractJWTStrategy(content, filePath, repoPath) ==
    [strategy |-> "jwt",
     configuration |-> [type |-> "jwt",
                        httpOnly |-> HasSetting(content, "httpOnly", "true"),
                        secure |-> Secure(content),
                        sameSite |-> SameSite(content)],
     lifetime |-> [accessToken |-> MaxAge(content), session |-> MaxAge(content) * 24],
     implementation |-> [filePath |-> Relative(filePath, repoPath),
                         template |-> extractSessionTemplate(content),
                         storageLocation |-> "httpOnly cookie"]]

extractDatabaseStrategy(content, filePath, repoPath) ==
    [strategy |-> "database",
     configuration |->
         [type |-> "database",
          adapter |-> IF Has(content, "MongoDBAdapter") THEN "mongodb"
                      ELSE IF Has(content, "FirestoreAdapter") THEN "firestore"
                      ELSE IF Has(content, "PrismaAdapter") THEN "prisma"
                      ELSE "unknown"],
     lifetime |-> [accessToken |-> 3600, session |-> 86400],
     implementation |-> [filePath |-> Relative(filePath, repoPath),
                         template |-> extractSessionTemplate(content),
                         storageLocation |-> "database"]]

extractCookieStorage(content, filePath, repoPath) ==
    [strategy |-> "cookie",
     configuration |-> [type |-> "cookie",
                        httpOnly |-> HasSetting(content, "httpOnly", "true"),
                        secure |-> Secure(content),
                        sameSite |-> SameSite(content),
                        maxAge |-> MaxAge(content)],
     lifetime |-> [accessToken |-> MaxAge(content), session |-> MaxAge(content)],
     implementation |-> [filePath |-> Relative(filePath, repoPath),
                         template |-> content,
                         storageLocation |-> "httpOnly cookie"]]

extractLocalStorage(content, filePath, repoPath) ==
    [strategy |-> "localStorage",
     configuration |-> [type |-> "localStorage"],
     lifetime |-> [accessToken |-> 3600, session |-> 86400],
     implementation |-> [filePath |-> Relative(filePath, repoPath),
                         template |-> content,
                         storageLocation |-> "localStorage"]]

\* includes('strategy: "NAME"') || includes("strategy: 'NAME'")
DeclaresStrategy(content, name) ==
    HasPhrase(content, <<W("strategy"), P(":"), Q(name)>>)

extractSessionStorage(repoPath, fs) ==
    LET abs(f) == Absolute(repoPath, f.path)
        nextAuthFiles ==
            Glob(fs, LAMBDA f : /\ IsSource(f)
                                /\ BaseHas(f, "next-auth")
                                /\ \/ DeclaresStrategy(f.content, "jwt")
                                   \/ DeclaresStrategy(f.content, "database"))
        cookieFiles ==
            Glob(fs, LAMBDA f :
                /\ IsSource(f)
                /\ \/ HasAny(f.content, {"Set-Cookie", "serialize"})
                   \/ HasPhrase(f.content, <<W("cookies"), P("."), W("set")>>))
        localStorageFiles ==
            Glob(fs, LAMBDA f :
                /\ IsSource(f)
                /\ HasPhrase(f.content, <<W("localStorage"), P("."), W("setItem")>>)
                /\ HasAny(f.content, {"token", "session", "user"}))
    IN  IF nextAuthFiles # <<>>
        THEN IF DeclaresStrategy(nextAuthFiles[1].content, "jwt")
             THEN extractJWTStrategy(nextAuthFiles[1].content, abs(nextAuthFiles[1]),
                                     repoPath)
             ELSE extractDatabaseStrategy(nextAuthFiles[1].content,
                                          abs(nextAuthFiles[1]), repoPath)
        ELSE IF cookieFiles # <<>>
        THEN extractCookieStorage(cookieFiles[1].content, abs(cookieFiles[1]), repoPath)
        ELSE IF localStorageFiles # <<>>
        THEN extractLocalStorage(localStorageFiles[1].content,
                                 abs(localStorageFiles[1]), repoPath)
        ELSE [strategy |-> "jwt",
              configuration |-> [type |-> "jwt", httpOnly |-> TRUE, secure |-> TRUE,
                                 sameSite |-> Text("lax")],
              lifetime |-> [accessToken |-> 3600, session |-> 86400],
              implementation |-> [filePath |-> NoPath, template |-> <<>>,
                                  storageLocation |-> "httpOnly cookie"]]

----------------------------------------------------------------------------
(* The token-strategy extractor.                                           *)

TokenKeywords ==
    {"access_token", "accessToken", "refresh_token", "refreshToken", "idToken",
     "id_token"}

\* new RegExp(`${tokenName}[^}]*${key}[^:]*:\\s*(\\d+)`, 's'): from the leftmost
\* token name that has a match, the last key reachable without crossing a "}";
\* the number, or 0 when there is no match (the caller treats 0 like null)
LifetimeAfter(content, tokenName, key) ==
    LET colon(j) == IndexOfFrom(content, P(":"), j + 1)
        keys(i) == {j \in (i + 1)..Len(content) :
                       /\ content[j] = W(key)
                       /\ \A m \in (i + 1)..(j - 1) : content[m] # P("}")
                       /\ colon(j) > 0
                       /\ colon(j) < Len(content)
                       /\ content[colon(j) + 1].v \in Digits
                       /\ key = "maxAge" => colon(j) = j + 1}
        I == {i \in 1..Len(content) :
                 /\ content[i].v = tokenName \/ <<content[i].v, tokenName>> \in Substrings
                 /\ keys(i) # {}}
    IN  IF I = {} THEN 0
        ELSE ParseInt(content[colon(Max(keys(Min(I)))) + 1].v)

LifetimeKeys == <<"maxAge", "expires_in", "expiresIn">>

RECURSIVE extractTokenLifetime(_, _)
\* the first number found for the token names in turn, 0 for null
extractTokenLifetime(content, tokenNames) ==
    IF tokenNames = <<>> THEN 0
    ELSE LET found == SelectSeq(LifetimeKeys,
                                LAMBDA k : LifetimeAfter(content, Head(tokenNames), k) > 0)
         IN  IF found # <<>> THEN LifetimeAfter(content, Head(tokenNames), found[1])
             ELSE extractTokenLifetime(content, Tail(tokenNames))

\* the text contains "refresh"
HasRefresh(content) ==
    HasAny(content, {"refresh", "refresh_token", "refreshToken"})

\* null (here <<>>) or the body of the refresh function or effect
extractRefreshLogic(content) ==
    LET brace(i) == IndexOfFrom(content, P("{"), i + 1)
        named == {i \in 1..Len(content) :
                     /\ HasRefresh(<<content[i]>>)
                     /\ brace(i) > 0
                     /\ BlockAt(content, brace(i))}
        \* useEffect\s*\([^)]*\{ : the last "{" before the first ")"
        effectBraces(i) == {b \in (i + 2)..Len(content) :
                               /\ \A m \in (i + 2)..(b - 1) : content[m] # P(")")
                               /\ BlockAt(content, b)}
        effects == {i \in 1..(Len(content) - 1) :
                       /\ content[i] = W("useEffect")
                       /\ content[i + 1] = P("(")
                       /\ effectBraces(i) # {}}
        effectBody == Enclosed(content, Max(effectBraces(Min(effects))), "}")
    IN  IF named # {} THEN Enclosed(content, brace(Min(named)), "}")
        ELSE IF effects # {} /\ HasRefresh(effectBody) THEN effectBody
        ELSE <<>>

\* capture 1 of /setInterval[^,]*,\s*(\d+)/, else 300000
Interval(content) ==
    LET comma(i) == IndexOfFrom(content, P(","), i + 1)
        I == {i \in 1..Len(content) :
                 /\ content[i] = W("setInterval")
                 /\ comma(i) > 0
                 /\ comma(i) < Len(content)
                 /\ content[comma(i) + 1].v \in Digits}
    IN  IF I = {} THEN 300000 ELSE ParseInt(content[comma(Min(I)) + 1].v)

\* a variant without the manual cases: a file that neither polls nor looks at
\* an expiry time has no refresh strategy
extractRefreshStrategyOrNone(content, filePath, repoPath) ==
    IF Has(content, "setInterval") \/ (Has(content, "useEffect") /\ HasRefresh(content))
    THEN [type |-> "automatic", trigger |-> "interval", interval |-> Interval(content),
          implementation |-> extractRefreshLogic(content),
          filePath |-> Relative(filePath, repoPath)]
    ELSE IF HasAny(content, {"expires", "expires_in", "expiresIn"}) /\ HasRefresh(content)
    THEN [type |-> "automatic", trigger |-> "before-expiry",
          implementation |-> extractRefreshLogic(content),
          filePath |-> Relative(filePath, repoPath)]
    ELSE [type |-> "none", trigger |-> "on-demand", implementation |-> <<>>]

extractRefreshStrategy(content, filePath, repoPath) ==
    IF Has(content, "setInterval") \/ (Has(content, "useEffect") /\ HasRefresh(content))
    THEN [type |-> "automatic", trigger |-> "interval", interval |-> Interval(content),
          implementation |-> extractRefreshLogic(content),
          filePath |-> Relative(filePath, repoPath)]
    ELSE IF HasAny(content, {"expires", "expires_in", "expiresIn"}) /\ HasRefresh(content)
    THEN [type |-> "automatic", trigger |-> "before-expiry",
          implementation |-> extractRefreshLogic(content),
          filePath |-> Relative(filePath, repoPath)]
    ELSE IF HasRefresh(content) /\ HasAny(content, {"function", "const", "async"})
    THEN [type |-> "manual", trigger |-> "on-demand",
          implementation |-> extractRefreshLogic(content),
          filePath |-> Relative(filePath, repoPath)]
    ELSE [type |-> "manual", trigger |-> "on-demand", implementation |-> <<>>]

\* the state of the loop over the token files before the first file
TokenDefaults ==
    [accessToken |-> [lifetime |-> 3600, storage |-> "httpOnly", httpOnly |-> "undefined",
                      secure |-> "undefined", sameSite |-> <<>>],
     refreshToken |-> Undefined,
     refreshStrategy |-> [type |-> "none", trigger |-> "on-demand", implementation |-> <<>>],
     implementation |-> [filePath |-> NoPath, template |-> <<>>]]

\* one iteration of the loop over the token files
TokenStep(acc, content, filePath, repoPath) ==
    LET accessTokenLifetime ==
            extractTokenLifetime(content,
                <<"access_token", "accessToken", "idToken", "id_token">>)
        refreshTokenLifetime ==
            extractTokenLifetime(content, <<"refresh_token", "refreshToken">>)
        refreshes == HasAny(content, {"refresh_token", "refreshToken"})
        secureMatch == {i \in 1..(Len(content) - 2) :
                           /\ content[i] = W("secure")
                           /\ content[i + 1] = P(":")
                           /\ content[i + 2] \in {W("true"), W("false")}}
    IN  [accessToken |->
             [lifetime |-> IF accessTokenLifetime # 0 THEN accessTokenLifetime
                           ELSE acc.accessToken.lifetime,
              storage |-> "httpOnly",
              httpOnly |-> IF Has(content, "httpOnly") THEN "true"
                           ELSE acc.accessToken.httpOnly,
              secure |-> IF HasPhrase(content, <<W("secure"), P(":")>>)
                         THEN IF secureMatch # {} /\ content[Min(secureMatch) + 2] = W("true")
                              THEN "true" ELSE "false"
                         ELSE acc.accessToken.secure,
              sameSite |-> IF QuotedAfter(content, "sameSite") # <<>>
                           THEN QuotedAfter(content, "sameSite")
                           ELSE acc.accessToken.sameSite],
         refreshToken |->
             IF refreshes
             THEN [lifetime |-> IF refreshTokenLifetime # 0 THEN refreshTokenLifetime
                                ELSE 604800,
                   storage |-> "httpOnly"]
             ELSE acc.refreshToken,
         refreshStrategy |->
             IF refreshes THEN extractRefreshStrategy(content, filePath, repoPath)
             ELSE acc.refreshStrategy,
         implementation |->
             IF \/ acc.implementation.filePath = NoPath
                \/ Len(content) < Len(acc.implementation.template)
             THEN [filePath |-> Relative(filePath, repoPath),
                   template |-> content,
                   refreshLogic |-> extractRefreshLogic(content)]
             ELSE acc.implementation]

RECURSIVE TokenLoop(_, _, _)
TokenLoop(acc, tokenFiles, repoPath) ==
    IF tokenFiles = <<>> THEN acc
    ELSE TokenLoop(TokenStep(acc, Head(tokenFiles).content,
                             Absolute(repoPath, Head(tokenFiles).path), repoPath),
                   Tail(tokenFiles), repoPath)

extractTokenStrategy(repoPath, fs) ==
    TokenLoop(TokenDefaults,
              Glob(fs, LAMBDA f : IsSource(f) /\ HasAny(f.content, TokenKeywords)),
              repoPath)

----------------------------------------------------------------------------
(* The aggregator and the generator.                                       *)

\* existsSync(join(repoPath, file))
Exists(fs, path) == \E i \in 1..Len(fs) : fs[i].path = path

\* the files of a fixed list that exist, as the relative names of the list
Existing(fs, list) == SelectSeq(list, LAMBDA p : Exists(fs, p))

helperFiles ==
    <<Path(<<"libs">>, "auth", "ts"), Path(<<"lib">>, "auth", "ts"),
      Path(<<"utils">>, "auth", "ts"), Path(<<"helpers">>, "auth", "ts"),
      Path(<<"libs">>, "middleware", "ts"), Path(<<"lib">>, "middleware", "ts")>>

hookFiles ==
    <<Path(<<"hooks">>, "useAuth", "ts"), Path(<<"hooks">>, "useAuth", "tsx"),
      Path(<<"contexts">>, "AuthContext", "tsx"),
      Path(<<"context">>, "AuthContext", "tsx")>>

libFiles ==
    <<Path(<<"libs">>, "next-auth", "ts"), Path(<<"lib">>, "next-auth", "ts"),
      Path(<<"libs">>, "firebase", "ts"), Path(<<"lib">>, "firebase", "ts")>>

Instruction(text) == [text |-> text]

generateSetupInstructions(authProvider, sessionStorage, tokenStrategy) ==
    (IF authProvider.type = "next-auth"
     THEN <<Instruction("1. Install NextAuth"), Instruction("2. Create auth configuration"),
            Instruction("3. Set up environment variables")>>
          \o (IF authProvider.configuration.adapter # "undefined"
              THEN <<[text |-> "4. Install and configure adapter",
                      adapter |-> authProvider.configuration.adapter]>>
              ELSE <<>>)
     ELSE <<>>)
    \o (IF sessionStorage.strategy = "jwt"
        THEN <<Instruction("5. Configure JWT session strategy")>>
        ELSE IF sessionStorage.strategy = "database"
        THEN <<Instruction("5. Set up database adapter for sessions")>>
        ELSE <<>>)
    \o (IF tokenStrategy.refreshToken # Undefined
        THEN <<Instruction("6. Implement refresh token strategy")>> ELSE <<>>)

generateUsageInstructions(authProvider, sessionStorage, tokenStrategy) ==
    (IF authProvider.type = "next-auth"
     THEN <<Instruction("Use useSession()"), Instruction("Use signIn() and signOut()")>>
     ELSE <<>>)
    \o (IF sessionStorage.strategy = "jwt"
        THEN <<Instruction("Session is stored in JWT token")>> ELSE <<>>)
    \o (IF tokenStrategy.refreshStrategy.type # "none"
        THEN <<[text |-> "Token refresh strategy",
                type |-> tokenStrategy.refreshStrategy.type]>>
        ELSE <<>>)

generateSecurityInstructions(sessionStorage, tokenStrategy) ==
    <<Instruction("Always use httpOnly cookies"), Instruction("Set secure flag"),
      Instruction("Use sameSite")>>
    \o (IF tokenStrategy.accessToken.lifetime # 0
        THEN <<[text |-> "Access token lifetime",
                seconds |-> tokenStrategy.accessToken.lifetime]>>
        ELSE <<>>)
    \o (IF tokenStrategy.refreshToken # Undefined /\ tokenStrategy.refreshToken.lifetime # 0
        THEN <<[text |-> "Refresh token lifetime",
                seconds |-> tokenStrategy.refreshToken.lifetime]>>
        ELSE <<>>)
    \o <<Instruction("Never expose tokens"), Instruction("Always verify tokens")>>

\* package.json of the working tree
NoManifest == [state |-> "absent", dependencies |-> {}]

MalformedManifest == [state |-> "malformed", dependencies |-> {}]

Manifest(dependencies) == [state |-> "parsed", dependencies |-> dependencies]

Framework(m) ==
    IF "next" \in m.dependencies THEN "nextjs"
    ELSE IF "react" \in m.dependencies THEN "react"
    ELSE IF "express" \in m.dependencies THEN "express"
    ELSE "unknown"

\* the outcome of a call: an exception, or the value returned
Thrown(e) == [error |-> e]

Returned(value) == [value |-> value]

\* readFileSync fails on a directory that one of the globs matches
Unreadable(fs) ==
    \E i \in 1..Len(fs) : fs[i].dir /\ fs[i].path.ext \in SourceExtensions \cup {"jsx"}

extractAuthSystem(repoPath, fs, packageJson, clock) ==
    IF packageJson.state = "malformed" THEN Thrown("SyntaxError")
    ELSE IF Unreadable(fs) THEN Thrown("EISDIR")
    ELSE LET authProvider == extractAuthProvider(repoPath, fs)
             sessionStorage == extractSessionStorage(repoPath, fs)
             tokenStrategy == extractTokenStrategy(repoPath, fs)
         IN  Returned(
                 [metadata |-> [projectName |-> LastSegment(repoPath),
                                extractedAt |-> clock,
                                framework |-> Framework(packageJson),
                                sourcePath |-> repoPath],
                  authProvider |-> authProvider,
                  sessionStorage |-> sessionStorage,
                  tokenStrategy |-> tokenStrategy,
                  roleModel |-> extractRoleModel(repoPath, fs),
                  permissionChecks |-> extractPermissionChecks(repoPath, fs),
                  utilities |-> [authHelpers |-> Existing(fs, helperFiles),
                                 commonHooks |-> Existing(fs, hookFiles),
                                 authFunctions |-> Existing(fs, libFiles)],
                  instructions |->
                      [setup |-> generateSetupInstructions(authProvider, sessionStorage,
                                                           tokenStrategy),
                       usage |-> generateUsageInstructions(authProvider, sessionStorage,
                                                           tokenStrategy),
                       security |-> generateSecurityInstructions(sessionStorage,
                                                                 tokenStrategy)]])

\* JSON.stringify(authMemory, null, 2): a property whose value is undefined is
\* left out (the marker stands for that), and so is one whose value is a function
Stringify(m) ==
    [m EXCEPT !.roleModel.hierarchy =
        IF @ = Undefined THEN @
        ELSE [levels |-> SelectSeq(@.levels, LAMBDA e : e.value.type = "number")]]

\* the header comment and the exported constant of the generated file
generateFileContent(m) ==
    [extractedFrom |-> m.metadata.sourcePath,
     generatedAt |-> m.metadata.extractedAt,
     framework |-> m.metadata.framework,
     AuthMemory |-> Stringify(m)]

----------------------------------------------------------------------------
(* Working trees.  The files a tree is drawn from; files listed under the  *)
(* same path are alternative contents of that file.                        *)

RECURSIVE Commas(_)
\* the elements of a list with a comma between them
Commas(items) ==
    IF Len(items) <= 1 THEN items
    ELSE <<Head(items), P(",")>> \o Commas(Tail(items))

\* const roles = ["a", "b"]
RoleArray(names) ==
    <<W("const"), W("roles"), P("="), P("[")>>
    \o Commas([i \in 1..Len(names) |-> Q(names[i])]) \o <<P("]")>>

\* name: ["p", "q"]
RoleEntry(name, permissions) ==
    <<W(name), P(":"), P("[")>>
    \o Commas([i \in 1..Len(permissions) |-> Q(permissions[i])]) \o <<P("]")>>

\* const roles = { admin: [...], viewer: ["read"] }
RoleObject(adminPermissions) ==
    <<W("const"), W("roles"), P("="), P("{")>>
    \o RoleEntry("admin", adminPermissions) \o <<P(",")>>
    \o RoleEntry("viewer", <<"read">>) \o <<P("}")>>

\* const permissions = ["p", "q"]
PermissionArray(names) ==
    <<W("const"), W("permissions"), P("="), P("[")>>
    \o Commas([i \in 1..Len(names) |-> Q(names[i])]) \o <<P("]")>>

\* export async function DELETE() { if (role === "admin") { return 1 } }
DeleteRoute ==
    <<W("export"), W("async"), W("function"), W("DELETE"), P("("), P(")"), P("{"),
      W("if"), P("("), W("role"), P("==="), Q("admin"), P(")"), P("{"),
      W("return"), W("1"), P("}"), P("}")>>

\* const ok = await verifyToken(req)
VerifyCall ==
    <<W("const"), W("ok"), P("="), W("await"), W("verifyToken"), P("("), W("req"),
      P(")")>>

\* export const authOptions = { session: { strategy: "jwt" },
\*   callbacks: { session: async ({ session }) => { return session } } }
NextAuthOptions ==
    <<W("export"), W("const"), W("authOptions"), P("="), P("{"),
      W("session"), P(":"), P("{"), W("strategy"), P(":"), Q("jwt"), P("}"), P(","),
      W("callbacks"), P(":"), P("{"),
      W("session"), P(":"), W("async"), P("("), P("{"), W("session"), P("}"), P(")"),
      P("=>"), P("{"), W("return"), W("session"), P("}"), P("}"), P("}")>>

\* export const authOptions = { providers: [] }
NextAuthDefaults ==
    <<W("export"), W("const"), W("authOptions"), P("="), P("{"),
      W("providers"), P(":"), P("["), P("]"), P("}")>>

\* cookies.set("s")
SetCookie == <<W("cookies"), P("."), W("set"), P("("), Q("s"), P(")")>>

\* const refreshToken = { maxAge: 900 }
RefreshConfig ==
    <<W("const"), W("refreshToken"), P("="), P("{"), W("maxAge"), P(":"), W("900"),
      P("}")>>

\* const accessToken = { maxAge: n }
AccessConfig(n) ==
    <<W("const"), W("accessToken"), P("="), P("{"), W("maxAge"), P(":"), W(n), P("}")>>

\* export function middleware(req) { if (req) { return verifyToken(req) } return 1 }
MiddlewareFile ==
    <<W("export"), W("function"), W("middleware"), P("("), W("req"), P(")"), P("{"),
      W("if"), P("("), W("req"), P(")"), P("{"),
      W("return"), W("verifyToken"), P("("), W("req"), P(")"), P("}"),
      W("return"), W("1"), P("}")>>

\* export function Guard() { const s = useSession() }
GuardComponent ==
    <<W("export"), W("function"), W("Guard"), P("("), P(")"), P("{"),
      W("const"), W("s"), P("="), W("useSession"), P("("), P(")"), P("}")>>

\* if (role === "user") { return 1 }
RoleTest ==
    <<W("if"), P("("), W("role"), P("==="), Q("user"), P(")"), P("{"),
      W("return"), W("1"), P("}")>>

\* export const x = 1
PlainFile == <<W("export"), W("const"), W("x"), P("="), W("1")>>

RolesPath == Path(<<"lib">>, "roles", "ts")

AclPath == Path(<<"lib">>, "acl", "ts")

OrdersRoutePath == Path(<<"app", "api", "orders">>, "route", "ts")

\* entries without any keyword an extractor looks for: a file and a directory
\* whose name ends like a source file
PlainEntries ==
    { SourceFile(Path(<<"src">>, "util", "ts"), PlainFile),
      Directory(Path(<<"vendor">>, "chart", "js")) }

Catalogue ==
    PlainEntries
    \cup { SourceFile(RolesPath, RoleArray(names)) :
               names \in { <<"admin", "guest">>, <<"constructor">> } }
    \cup { SourceFile(RolesPath, RoleArray(<<"Admin", "owner", "Admin">>) \o RoleTest) }
    \cup { SourceFile(AclPath,
                      RoleObject(p) \o PermissionArray(<<"read", "write", "read">>)) :
               p \in { <<"read">>, <<"read", "write">> } }
    \cup { SourceFile(OrdersRoutePath, DeleteRoute),
           SourceFile(OrdersRoutePath, DeleteRoute \o VerifyCall),
           SourceFile(Path(<<"libs">>, "next-auth", "ts"), NextAuthOptions),
           SourceFile(Path(<<"libs">>, "next-auth", "ts"), NextAuthDefaults),
           SourceFile(Path(<<>>, "middleware", "ts"),
                      MiddlewareFile \o SetCookie \o RefreshConfig \o AccessConfig("900")),
           SourceFile(Path(<<"components">>, "Guard", "tsx"),
                      GuardComponent \o AccessConfig("60")) }

\* the most entries a working tree of the model has, package.json included
MaxFiles == 2

\* the trees: sequences of entries with different paths, in the order glob
\* enumerates them
Trees ==
    UNION { { t \in [1..n -> Catalogue] :
                \A i, j \in 1..n : i # j => t[i].path # t[j].path } : n \in 0..MaxFiles }

Manifests == { NoManifest, MalformedManifest, Manifest({"react", "next"}) }

\* the most calls of extractAuthSystem on one tree
MaxRuns == 2

\* the last reading of the clock
MaxClock == 1

----------------------------------------------------------------------------
(* The extraction specification: one unchanged working tree, on which the  *)
(* pipeline runs again and again while the clock may advance.              *)

\* the request handler standing by, with its working directory in place
HandlerAtRest ==
    /\ pc = "idle"
    /\ request = [kind |-> "none"]
    /\ repoUrl = <<>>
    /\ uploadedFile = NoFile
    /\ tempDir = TempDirPath
    /\ dirExists = TRUE
    /\ tree = EmptyTree
    /\ owner = <<>>
    /\ repo = <<>>
    /\ defaultBranch = "main"
    /\ branchesToTry = <<>>
    /\ bi = 1
    /\ fi = 1
    /\ downloaded = FALSE
    /\ errors = <<>>
    /\ response = NoResponse
    /\ authMemory = NoMemory
    /\ fileContent = NoContent
    /\ err = NoErr
    /\ resp = NoResp
    /\ net = <<>>
    /\ created = TRUE
    /\ origErr = NoErr

ExtractInit ==
    /\ files \in Trees
    /\ manifest \in Manifests
    /\ Len(files) + (IF manifest = NoManifest THEN 0 ELSE 1) <= MaxFiles
    /\ now = 0
    /\ records = <<>>
    /\ artifacts = <<>>
    /\ IdleServer
    /\ HandlerAtRest

\* the artifact of a record: none when the call threw
Rendered(record) ==
    IF "error" \in DOMAIN record THEN NoContent ELSE generateFileContent(record.value)

\* a run that finds the files of the tree in the opposite order after the
\* first run
RunPipelineReordered ==
    /\ Len(records) < MaxRuns
    /\ \E record \in
           {extractAuthSystem(tempDir,
                              IF records = <<>> THEN files
                              ELSE [i \in 1..Len(files) |-> files[Len(files) + 1 - i]],
                              manifest, now)} :
           /\ records' = Append(records, record)
           /\ artifacts' = Append(artifacts, Rendered(record))
    /\ UNCHANGED <<files, manifest, now, handlerVars, serverVars>>

\* one run of the pipeline on the tree: extractAuthSystem(workingDir) at the
\* present reading of the clock, then generateAuthMemoryFile on the record it
\* returned
RunPipeline ==
    /\ Len(records) < MaxRuns
    /\ \E record \in {extractAuthSystem(tempDir, files, manifest, now)} :
           /\ records' = Append(records, record)
           /\ artifacts' = Append(artifacts, Rendered(record))
    /\ UNCHANGED <<files, manifest, now, handlerVars, serverVars>>

\* time passes
Tick ==
    /\ now < MaxClock
    /\ now' = now + 1
    /\ UNCHANGED <<files, manifest, records, artifacts, handlerVars, serverVars>>

ExtractNext == RunPipeline \/ Tick

ExtractSpec == ExtractInit /\ [][ExtractNext]_vars

----------------------------------------------------------------------------
(* Properties of the extraction pipeline (ExtractSpec).                    *)

\* the words and strings the file filters of the extractors look for
AuthKeywords ==
    RoleKeywords \cup TokenKeywords
    \cup {"authMiddleware", "requireAuth", "checkAuth", "verifyToken", "unauthorized",
          "Unauthorized", "JWT", "jwt", "useAuth", "useSession", "isAuthenticated",
          "signin", "login", "cognito", "COGNITO", "firebase/auth", "signInWith",
          "Set-Cookie", "serialize", "cookies", "localStorage", "token", "session"}

\* no file of the tree contains an auth-related keyword
KeywordFree(fs) ==
    \A i \in 1..Len(fs) :
        fs[i].dir \/ ~\E k \in AuthKeywords : Has(fs[i].content, k)

\* C11: on a working tree whose files contain no auth-related keyword,
\* extractAuthSystem raises no exception, the singleton categories have their
\* defaults (provider type "unknown", session strategy "jwt", refresh strategy
\* type "none") and every plural category is an empty list.
C11_KeywordFreeTotal ==
    KeywordFree(files) =>
        \A i \in 1..Len(records) :
            /\ "value" \in DOMAIN records[i]
            /\ LET m == records[i].value IN
               /\ m.authProvider.type = "unknown"
               /\ m.sessionStorage.strategy = "jwt"
               /\ m.tokenStrategy.refreshStrategy.type = "none"
               /\ m.roleModel.roles = <<>>
               /\ m.roleModel.permissions = <<>>
               /\ m.permissionChecks.middleware = <<>>
               /\ m.permissionChecks.protectedRoutes = <<>>
               /\ m.permissionChecks.apiGuards = <<>>
               /\ m.permissionChecks.componentGuards = Array(<<>>)

\* the names of a list of facts
Names(list) == {list[i].name : i \in 1..Len(list)}

\* no two entries of the list have the same name
NoDuplicateNames(list) ==
    \A i, j \in 1..Len(list) : list[i].name = list[j].name => i = j

\* C12: the roles list and the permissions list of the role model hold no two
\* entries with the same name, and each is as long as the number of distinct
\* names among the candidate facts collected from all files.
C12_UniqueNames ==
    records # <<>> =>
        \A roleNames \in {Names(CandidateRoles(files))},
           permissionNames \in {Names(CandidatePermissions(files))} :
            \A i \in 1..Len(records) :
                "value" \in DOMAIN records[i] =>
                    LET m == records[i].value.roleModel IN
                    /\ NoDuplicateNames(m.roles)
                    /\ NoDuplicateNames(m.permissions)
                    /\ Len(m.roles) = Cardinality(roleNames)
                    /\ Len(m.permissions) = Cardinality(permissionNames)

\* a record of a tree whose candidate roles and candidate permissions both
\* repeat a name
C12_Witness ==
    /\ Len(records) > 0
    /\ "value" \in DOMAIN records[1]
    /\ ~NoDuplicateNames(CandidateRoles(files))
    /\ ~NoDuplicateNames(CandidatePermissions(files))
    /\ Len(records[1].value.roleModel.roles) > 1
    /\ Len(records[1].value.roleModel.permissions) > 1

\* the position of the first and of the last candidate of a name
FirstAt(c, name) == Min({i \in 1..Len(c) : c[i].name = name})

LastAt(c, name) == Max({i \in 1..Len(c) : c[i].name = name})

\* the output keeps the names in the order of their first candidates, and each
\* entry is the last candidate of its name
FirstPlaceLastValue(out, c) ==
    /\ \A k \in 1..Len(out) : \E i \in 1..Len(c) : c[i].name = out[k].name
    /\ \A k, l \in 1..Len(out) :
           k < l => FirstAt(c, out[k].name) < FirstAt(c, out[l].name)
    /\ \A k \in 1..Len(out) : out[k] = c[LastAt(c, out[k].name)]

\* C13: in the de-duplicated roles and permissions lists each entry sits at the
\* position of the first occurrence of its name in the combined candidate
\* sequence, and its field values are those of the last occurrence of the name.
C13_FirstPlaceLastValue ==
    records # <<>> =>
        \A roles \in {CandidateRoles(files)},
           permissions \in {CandidatePermissions(files)} :
            \A i \in 1..Len(records) :
                "value" \in DOMAIN records[i] =>
                    LET m == records[i].value.roleModel IN
                    /\ FirstPlaceLastValue(m.roles, roles)
                    /\ FirstPlaceLastValue(m.permissions, permissions)

\* a record of a tree in which a role is found twice with different permissions
\* and another role is first found in between
C13_Witness ==
    /\ Len(records) > 0
    /\ "value" \in DOMAIN records[1]
    /\ LET c == CandidateRoles(files) IN
       \E i, j, k \in 1..Len(c) :
           /\ i < j /\ j < k
           /\ c[i].name = c[k].name
           /\ c[i].permissions # c[k].permissions
           /\ c[j].name # c[i].name
           /\ FirstAt(c, c[j].name) = j

\* the lower-cased name has an entry in the level table
HasLevel(name) == KeyOf(name) \in DOMAIN levelMap

\* C14: when no discovered role name, compared case-insensitively, has an entry
\* in the level table, the hierarchy of the role model is absent; and a
\* hierarchy that is present has at least one level entry.
C14_HierarchyAbsentOrLevelled ==
    \A i \in 1..Len(records) :
        "value" \in DOMAIN records[i] =>
            LET m == records[i].value.roleModel IN
            /\ (\A k \in 1..Len(m.roles) : ~HasLevel(m.roles[k].name))
                   => m.hierarchy = Undefined
            /\ m.hierarchy # Undefined
                   => \E k \in 1..Len(m.hierarchy.levels) :
                          m.hierarchy.levels[k].value.type = "number"

\* the directories lie at or below the root
Under(dirs, root) ==
    /\ Len(dirs) >= Len(root)
    /\ SubSeq(dirs, 1, Len(root)) = root

\* the file paths, endpoints and route paths stored in a record
StoredPaths(m) ==
    LET paths(list, field) == {list[i][field] : i \in 1..Len(list)}
        guards == m.permissionChecks.componentGuards
    IN  {m.authProvider.implementation.filePath,
         m.sessionStorage.implementation.filePath,
         m.tokenStrategy.implementation.filePath,
         m.roleModel.implementation.filePath}
        \cup (IF "callbacks" \in DOMAIN m.authProvider
              THEN paths(m.authProvider.callbacks, "filePath") ELSE {})
        \cup paths(m.permissionChecks.middleware, "filePath")
        \cup paths(m.permissionChecks.apiGuards, "filePath")
        \cup paths(m.permissionChecks.apiGuards, "endpoint")
        \cup paths(m.permissionChecks.protectedRoutes, "path")
        \cup (IF guards = Undefined THEN {} ELSE paths(guards.array, "filePath"))

\* no stored path and no metadata of the record names the host's directory
Portable(m, root) ==
    /\ \A p \in StoredPaths(m) : ~Under(p.dirs, root)
    /\ ~Under(m.metadata.sourcePath, root)

\* C15: every file path stored in the record is relative to the working-tree
\* root and never contains the absolute path of the temporary directory; the
\* record and its rendered artifact leak no location of the host's file system.
C15_NoHostPath ==
    /\ \A i \in 1..Len(records) :
           "value" \in DOMAIN records[i] => Portable(records[i].value, tempDir)
    /\ \A i \in 1..Len(artifacts) :
           "AuthMemory" \in DOMAIN artifacts[i] =>
               /\ Portable(artifacts[i].AuthMemory, tempDir)
               /\ ~Under(artifacts[i].extractedFrom, tempDir)

Unstamped(r) ==
    IF "value" \in DOMAIN r
    THEN [value |-> [r.value EXCEPT !.metadata.extractedAt = 0]]
    ELSE r

\* an artifact without the instant its record was made at
UnstampedContent(a) ==
    IF "AuthMemory" \in DOMAIN a
    THEN [a EXCEPT !.generatedAt = 0, !.AuthMemory.metadata.extractedAt = 0]
    ELSE a

HasRoleObject(fs, adminPermissions) ==
    \E i \in 1..Len(fs) :
        /\ fs[i].path = AclPath
        /\ HasPhrase(fs[i].content, RoleObject(adminPermissions))

\* the role of that name in the list, with these permissions
HasRole(roles, name, permissions) ==
    \E k \in 1..Len(roles) :
        roles[k] = RoleDefinition(<<name>>, [i \in 1..Len(permissions) |-> <<permissions[i]>>])

\* the hierarchy gives the role this level
HasLevelEntry(hierarchy, name, level) ==
    /\ hierarchy # Undefined
    /\ \E k \in 1..Len(hierarchy.levels) :
           hierarchy.levels[k] = [key |-> <<name>>, value |-> [type |-> "number", n |-> level]]

\* C17: a role object literal mapping each role name to a permission array,
\* const roles = { admin: [...], viewer: ["read"] }, yields one role per key
\* with the key's complete permission list and a hierarchy with admin 3 and
\* viewer 1, for permission arrays of any length.
C17_RoleObjectComplete ==
    \A p \in { <<"read">>, <<"read", "write">> } :
        (HasRoleObject(files, p) /\ Len(files) = 1) =>
            \A i \in 1..Len(records) :
                "value" \in DOMAIN records[i] =>
                    LET m == records[i].value.roleModel IN
                    /\ Len(m.roles) = 2
                    /\ HasRole(m.roles, "admin", p)
                    /\ HasRole(m.roles, "viewer", <<"read">>)
                    /\ HasLevelEntry(m.hierarchy, "admin", 3)
                    /\ HasLevelEntry(m.hierarchy, "viewer", 1)

\* the tree holds app/api/orders/route.ts, whose content has
\* `export async function DELETE` and `role === "admin"`
HasOrdersRoute(fs) ==
    \E i \in 1..Len(fs) :
        /\ fs[i].path = OrdersRoutePath
        /\ HasPhrase(fs[i].content, <<W("export"), W("async"), W("function"), W("DELETE")>>)
        /\ HasPhrase(fs[i].content, <<W("role"), P("==="), Q("admin")>>)

RouteSignals ==
    {"authMiddleware", "requireAuth", "checkAuth", "verifyToken", "unauthorized",
     "Unauthorized"}

\* the further words one of the route filters reacts to
OtherRouteSignals ==
    {"JWT", "jwt", "idToken", "id_token", "No authentication token",
     "Authentication required", "401", "cookies"}

\* the API guards of the record are the one guard of the orders route
OneOrdersGuard(guards) ==
    /\ Len(guards) = 1
    /\ guards[1].endpoint = Path(<<"api", "orders">>, "", "")
    /\ guards[1].method = "DELETE"
    /\ guards[1].protection = "role"

----------------------------------------------------------------------------
(* Requests in flight together.  The handlers run on one event loop: the    *)
(* code between two awaits is one step, and the requests share the          *)
(* temporary directory of the host.                                         *)

\* the most requests in flight
MaxInFlight == 2

InFlight == 1..MaxInFlight

\* the values Math.random().toString(36).substring(7) takes in the model
Suffixes == {"a", "b"}

\* no working tree yet
NoDir == [stamp |-> 0 - 1, suffix |-> ""]

\* path.join(os.tmpdir(), `auth-extract-${Date.now()}-${suffix}`)
DirName(stamp, suffix) == [stamp |-> stamp, suffix |-> suffix]

\* a directory of the temporary directory, and a file below one, with the
\* request that created it
DirEntry(name) == [kind |-> "dir", name |-> name, by |-> 0]

FileEntry(name, r) == [kind |-> "file", name |-> name, by |-> r]

\* the requests whose files lie in the directory
FilesIn(name) == {e.by : e \in {d \in disk : d.kind = "file" /\ d.name = name}}

\* fs.rmSync(dir, { recursive: true, force: true })
RmSync(name) == {e \in disk : e.name # name}

ServerInit ==
    /\ reqs = [r \in InFlight |->
                  [pc |-> "start", dir |-> NoDir, saw |-> {}, removed |-> {}, out |-> 0]]
    /\ disk = {}
    /\ now = 0
    /\ IdleExtract
    /\ HandlerAtRest

\* tempDir = path.join(...); fs.mkdirSync(tempDir, { recursive: true }), which
\* does not fail when the directory is there already
ReqCreateDir(r) ==
    /\ reqs[r].pc = "start"
    /\ \E s \in Suffixes :
           /\ reqs' = [reqs EXCEPT ![r].pc = "created", ![r].dir = DirName(now, s)]
           /\ disk' = disk \cup {DirEntry(DirName(now, s))}
    /\ UNCHANGED <<handlerVars, extractVars, now>>

\* await execAsync(`git clone --depth 1 ... ${workingDir}`): git refuses a
\* directory that is not empty, and a clone that fails for this or another
\* reason leaves the archive fallback to try
ReqClone(r) ==
    /\ reqs[r].pc = "created"
    /\ \E ok \in BOOLEAN :
           IF ok /\ FilesIn(reqs[r].dir) = {}
           THEN /\ reqs' = [reqs EXCEPT ![r].pc = "ready"]
                /\ disk' = disk \cup {DirEntry(reqs[r].dir), FileEntry(reqs[r].dir, r)}
           ELSE /\ reqs' = [reqs EXCEPT ![r].pc = "fallback"]
                /\ disk' = disk
    /\ UNCHANGED <<handlerVars, extractVars, now>>

\* zip.extractAllTo(workingDir, true) on the uploaded archive, or on the
\* archive the fallback downloaded: written whatever the directory holds
ReqUnzip(r) ==
    /\ reqs[r].pc \in {"created", "fallback"}
    /\ reqs' = [reqs EXCEPT ![r].pc = "ready"]
    /\ disk' = disk \cup {DirEntry(reqs[r].dir), FileEntry(reqs[r].dir, r)}
    /\ UNCHANGED <<handlerVars, extractVars, now>>

\* the upload is no archive, or every download failed: the error goes to the
\* inner catch
ReqFail(r) ==
    /\ reqs[r].pc \in {"created", "fallback"}
    /\ reqs' = [reqs EXCEPT ![r].pc = "failed"]
    /\ UNCHANGED <<handlerVars, extractVars, now, disk>>

\* await extractAuthSystem(workingDir): reads the files of the working tree,
\* and throws when the directory is gone
ReqExtract(r) ==
    /\ reqs[r].pc = "ready"
    /\ IF DirEntry(reqs[r].dir) \in disk
       THEN reqs' = [reqs EXCEPT ![r].pc = "extracted",
                                 ![r].saw = @ \cup FilesIn(reqs[r].dir)]
       ELSE reqs' = [reqs EXCEPT ![r].pc = "failed"]
    /\ UNCHANGED <<handlerVars, extractVars, now, disk>>

\* generateAuthMemoryFile(authMemory, tempOutputPath); readFileSync;
\* unlinkSync: the output file is written, read and removed without an await
\* in between, and then the working tree is removed
ReqGenerate(r) ==
    /\ reqs[r].pc = "extracted"
    /\ LET written == disk \cup {[kind |-> "out", name |-> now, by |-> r]}
           read == {e.by : e \in {o \in written : o.kind = "out" /\ o.name = now}}
       IN  /\ reqs' = [reqs EXCEPT ![r].pc = "done",
                                   ![r].out = CHOOSE b \in read : TRUE,
                                   ![r].removed = @ \cup FilesIn(reqs[r].dir)]
           /\ disk' = RmSync(reqs[r].dir)
    /\ UNCHANGED <<handlerVars, extractVars, now>>

\* the inner catch: if (tempDir && fs.existsSync(tempDir)) fs.rmSync(tempDir, ...)
ReqCatch(r) ==
    /\ reqs[r].pc = "failed"
    /\ reqs' = [reqs EXCEPT ![r].pc = "done",
                            ![r].removed = @ \cup FilesIn(reqs[r].dir)]
    /\ disk' = RmSync(reqs[r].dir)
    /\ UNCHANGED <<handlerVars, extractVars, now>>

ServerNext ==
    \/ \E r \in InFlight :
           \/ ReqCreateDir(r)
           \/ ReqClone(r)
           \/ ReqUnzip(r)
           \/ ReqFail(r)
           \/ ReqExtract(r)
           \/ ReqGenerate(r)
           \/ ReqCatch(r)
    \/ Tick

ServerSpec == ServerInit /\ [][ServerNext]_vars

\* C19: with two or more requests in flight and interleaved at their
\* suspension points, each request reads, writes and deletes only its own
\* working tree and its own temporary output file: no request observes or
\* removes files created by another request.
C19_Isolation ==
    \A r \in InFlight :
        /\ reqs[r].saw \subseteq {r}
        /\ reqs[r].removed \subseteq {r}
        /\ reqs[r].out \in {0, r}

\* the level entries the table gives the roles that have an entry in it
TableLevels(roles) ==
    {[key |-> roles[k].name,
      value |-> [type |-> "number", n |-> levelMap[KeyOf(roles[k].name)]]] :
         k \in {i \in 1..Len(roles) : HasLevel(roles[i].name)}}

\* the level entries of a hierarchy, none for an absent one
LevelEntries(hierarchy) ==
    IF hierarchy = Undefined THEN {}
    ELSE {hierarchy.levels[k] : k \in 1..Len(hierarchy.levels)}

\* C20: the hierarchy contains exactly the discovered roles whose lower-cased
\* name has an entry in the level table, each with its table level; guest with
\* level 0 is honoured too, and only roles without a table entry are omitted.
C20_HierarchyIsTableLookup ==
    \A i \in 1..Len(records) :
        "value" \in DOMAIN records[i] =>
            LET m == records[i].value.roleModel IN
            LevelEntries(m.hierarchy) = TableLevels(m.roles)

\* every entry of the output is a fact of the first file, in enumeration
\* order, in which its name is found
FromFirstFile(out, perFile) ==
    \A k \in 1..Len(out) :
        \E i \in 1..Len(perFile) :
            /\ \E j \in 1..Len(perFile[i]) : perFile[i][j] = out[k]
            /\ \A h \in 1..(i - 1) :
                   \A j \in 1..Len(perFile[h]) : perFile[h][j].name # out[k].name

\* C21: while files are processed in enumeration order, a later file may add a
\* role or permission under a new name but never changes the value (the
\* permission list) of a name already discovered in an earlier file.
C21_EarlierFileKeepsValue ==
    records # <<>> =>
        \A roleFiles \in {RoleFiles(files)} :
            \A i \in 1..Len(records) :
                "value" \in DOMAIN records[i] =>
                    LET m == records[i].value.roleModel IN
                    /\ FromFirstFile(m.roles,
                                     [f \in 1..Len(roleFiles) |->
                                         extractRoles(roleFiles[f].content)])
                    /\ FromFirstFile(m.permissions,
                                     [f \in 1..Len(roleFiles) |->
                                         extractPermissions(roleFiles[f].content)])

\* the role names the structural rules of extractRoles find in a file: the
\* role array, the role object and the user.role assignments
StructuralRoles(content) ==
    LET listed == ListedNames(DeclarationBody(content, {"role", "roles"}, "[", "]"))
        roleEntries == Split(DeclarationBody(content, {"role", "roles"}, "{", "}"), P(","))
        fromObject == Flatten([i \in 1..Len(roleEntries) |-> EntryRoles(roleEntries[i])])
        userRoles == UserRoleMatches(content)
    IN  {listed[i] : i \in 1..Len(listed)} \cup Names(fromObject)
        \cup {userRoles[i] : i \in 1..Len(userRoles)}

\* the permission names the structural and call-site rules of
\* extractPermissions find in a file
StructuralPermissions(content) ==
    LET listed == ListedNames(DeclarationBody(content, {"permission", "permissions"},
                                              "[", "]"))
        calls == PermissionCheckMatches(content)
    IN  {listed[i] : i \in 1..Len(listed)} \cup {calls[i] : i \in 1..Len(calls)}

\* the facts of one file come from its first rule category that finds any: all
\* names are structural ones unless the structural rules found nothing, and
\* facts of the same name have the same value
FirstCategoryOnly(facts, structural) ==
    /\ structural # {} => Names(facts) \subseteq structural
    /\ \A i, j \in 1..Len(facts) : facts[i].name = facts[j].name => facts[i] = facts[j]

\* C22: within one file, role and permission extraction use only the first
\* rule category that yields a result: the closed-vocabulary rule contributes
\* facts only when the structural and call-site rules found nothing in that
\* file, and no later rule changes the value of a name an earlier rule
\* produced in the same file.
C22_FirstCategoryPerFile ==
    records # <<>> =>
        \A roleFiles \in {RoleFiles(files)} :
            \A f \in 1..Len(roleFiles) :
                /\ FirstCategoryOnly(extractRoles(roleFiles[f].content),
                                     StructuralRoles(roleFiles[f].content))
                /\ FirstCategoryOnly(extractPermissions(roleFiles[f].content),
                                     StructuralPermissions(roleFiles[f].content))

\* the files extractTokenStrategy reads, in enumeration order
TokenFiles(fs) == Glob(fs, LAMBDA f : IsSource(f) /\ HasAny(f.content, TokenKeywords))

\* the lifetime annotation a file has near an access-token keyword, 0 if none
AccessLifetime(content) ==
    extractTokenLifetime(content, <<"access_token", "accessToken", "idToken", "id_token">>)

\* the access-token lifetime of the first file that has one, else the default
FirstAccessLifetime(fs) ==
    LET annotated == SelectSeq(TokenFiles(fs), LAMBDA f : AccessLifetime(f.content) # 0)
    IN  IF annotated = <<>> THEN 3600 ELSE AccessLifetime(annotated[1].content)

\* C23: the access-token lifetime of the token strategy is the one found in
\* the first file, in enumeration order, that has a lifetime annotation near
\* an access-token keyword; annotations in later files do not change it, and
\* it is 3600 when no file has one.
C23_FirstFileLifetime ==
    records # <<>> =>
        \A lifetime \in {FirstAccessLifetime(files)} :
            \A i \in 1..Len(records) :
                "value" \in DOMAIN records[i] =>
                    records[i].value.tokenStrategy.accessToken.lifetime = lifetime

----------------------------------------------------------------------------
(* Further properties of the request handler (Spec).                       *)

\* the <repo> of an accepted https://github.com/<owner>/<repo> URL
RepoName(u) == MatchRepo(u)[1]

\* C24: metadata.projectName of the assembled record is the last path segment
\* of the repository's logical name (the <repo> of the requested owner/repo,
\* or the uploaded project's name), whatever the name of the temporary
\* directory that backs the working tree.
C24_ProjectNameIsRepositoryName ==
    authMemory # NoMemory =>
        /\ owner # <<>> => authMemory.metadata.projectName = RepoName(repoUrl)
        /\ authMemory.metadata.projectName # LastSegment(tempDir)

----------------------------------------------------------------------------
(* Further properties of the extraction pipeline (ExtractSpec).            *)

\* the tokens between the brace at `open` and the brace that closes it, found
\* by counting depth
BalancedBody(content, open) ==
    SubSeq(content, open + 1, BlockEnd(content, open, 0, FALSE) - 1)

\* C25: the middleware template extracted for a middleware file is the
\* complete function body found by balanced-brace scanning, from the opening
\* brace after the middleware anchor to the matching closing brace at depth
\* zero, so a body with nested blocks is captured in full and is not cut at
\* the first closing brace.
C25_TemplateIsBalancedBody ==
    \A i \in 1..Len(records) :
        "value" \in DOMAIN records[i] =>
            \A k \in 1..Len(records[i].value.permissionChecks.middleware) :
                \E f \in 1..Len(files) :
                    /\ MiddlewareMatch(files[f].content) # 0
                    /\ records[i].value.permissionChecks.middleware[k].template =
                           BalancedBody(files[f].content,
                                        MiddlewareMatch(files[f].content))

\* the list of instructions has a line with this text
HasInstruction(list, text) == \E k \in 1..Len(list) : list[k].text = text

\* C26: in every result of extractTokenStrategy a refresh-token fact is present
\* if and only if the refresh strategy type differs from "none"; so the setup
\* step "Implement refresh token strategy" and the usage line "Token refresh
\* strategy: ..." are either both emitted or both omitted.
C26_RefreshTokenIffStrategy ==
    \A i \in 1..Len(records) :
        "value" \in DOMAIN records[i] =>
            LET m == records[i].value IN
            /\ m.tokenStrategy.refreshToken # Undefined
                   <=> m.tokenStrategy.refreshStrategy.type # "none"
            /\ HasInstruction(m.instructions.setup, "6. Implement refresh token strategy")
                   <=> HasInstruction(m.instructions.usage, "Token refresh strategy")

\* a record with a refresh token, a refresh strategy and both instruction
\* lines, from a tree where a token file without a refresh token comes after
\* the one that has it
C26_Witness ==
    /\ Len(records) > 0
    /\ "value" \in DOMAIN records[1]
    /\ records[1].value.tokenStrategy.refreshToken # Undefined
    /\ records[1].value.tokenStrategy.refreshStrategy.type = "manual"
    /\ HasInstruction(records[1].value.instructions.setup,
                      "6. Implement refresh token strategy")
    /\ HasInstruction(records[1].value.instructions.usage, "Token refresh strategy")
    /\ Len(files) = 2
    /\ ~HasAny(files[2].content, {"refresh_token", "refreshToken"})
    /\ HasAny(files[2].content, TokenKeywords)

\* C27: whenever the record's authProvider.type is "next-auth", the session
\* strategy in authProvider.configuration.strategy equals
\* sessionStorage.strategy: the two extractors never report different session
\* strategies for the same working tree.
C27_SameSessionStrategy ==
    \A i \in 1..Len(records) :
        "value" \in DOMAIN records[i] =>
            LET m == records[i].value IN
            m.authProvider.type = "next-auth" =>
                m.authProvider.configuration.strategy = Text(m.sessionStorage.strategy)

\* C28: each middleware file of the working tree contributes at most one
\* MiddlewarePattern to permissionChecks.middleware: the list never holds two
\* entries with the same filePath, even for a file named exactly middleware.ts
\* that matches more than one of the enumeration patterns.
C28_OnePatternPerMiddlewareFile ==
    \A i \in 1..Len(records) :
        "value" \in DOMAIN records[i] =>
            LET middleware == records[i].value.permissionChecks.middleware IN
            \A k, l \in 1..Len(middleware) :
                middleware[k].filePath = middleware[l].filePath => k = l

----------------------------------------------------------------------------
(* Further properties of the request handler (Spec), continued.            *)

\* the URL without a trailing ".git"
WithoutGitSuffix(u) ==
    IF Len(u) >= 2 /\ SubSeq(u, Len(u) - 1, Len(u)) = <<".", "git">>
    THEN SubSeq(u, 1, Len(u) - 2)
    ELSE u

\* C29: for an accepted URL https://github.com/<owner>/<repo>.git the
\* repository name used for the branch-info request, for every archive URL
\* and for locating the wrapper directory to hoist is <repo> without the
\* ".git" suffix, the same owner/repo as for the URL without the suffix.
C29_GitSuffixStripped ==
    owner # <<>> =>
        \A name \in {MatchRepo(WithoutGitSuffix(repoUrl))} :
            /\ repo = name
            /\ \A i \in 1..Len(net) :
                   /\ net[i].call = "branch_info" => net[i].repo = name
                   /\ net[i].call = "fetch" => net[i].url.repo = name

\* C30: when extraction is reached through the download fallback, the working
\* tree holds only files of the one archive that succeeded: a failed clone and
\* an earlier download attempt that failed (also one that passed the ZIP
\* magic-byte check and threw during extraction) leave no files behind in the
\* tree the extractors scan.
C30_OnlyTheArchiveThatSucceeded ==
    /\ (downloaded /\ pc = "extract_auth") =>
           \A id \in FilesOf(tree) : id[1] = "zip"
    /\ (downloaded /\ authMemory # NoMemory) =>
           \A c \in Categories : \A id \in authMemory[c] : id[1] = "zip"

====
